---- MODULE Spec2Model ----
(***************************************************************************)
(* The workflow execution monitor of scripts/workflow_runner.py            *)
(* (WorkflowRunner): the per-action status state machine, the monitor      *)
(* thread, the log-tailing worker threads, shutdown()/force_shutdown()     *)
(* and main(), together with the blob store they poll.                     *)
(***************************************************************************)
EXTENDS Integers, Sequences, FiniteSets, TLC

(* ------------------------------ bounds -------------------------------- *)

\* longest log object (in lines) the remote actions write
MaxLogLen == 1
\* the same, in the fan-out workflow
FanOutLogLen == 2
\* self.timeout, in clock ticks
Timeout == 1
\* max_wait_time of wait_for_vm_ready, in check intervals
MaxWaitTime == 2
\* timeout of check_runner_online, in check intervals
RunnerTimeout == 2

(* --------------------------- FunctionStatus --------------------------- *)

PENDING == "pending"
INVOKED == "invoked"
NOT_INVOKED == "not_invoked"
RUNNING == "running"
COMPLETED == "completed"
FAILED == "failed"
SKIPPED == "skipped"
TIMEOUT == "timeout"

FunctionStatus ==
  {PENDING, INVOKED, NOT_INVOKED, RUNNING, COMPLETED, FAILED, SKIPPED, TIMEOUT}

(* ------------------------------ log text ------------------------------ *)

\* WorkflowName of the workflow file
WorkflowName == "wf"

\* head_object / get_object on a key that is absent: the error in the place of
\* the content, which no log object holds as its lines
NoObject == <<[kind |-> "NoSuchKey", name |-> <<>>]>>

\* a line that failed_regex matches: "[1.5] [ERROR] ..."
ErrorLine == [kind |-> "error", name |-> <<>>]
\* a line that invoked_regex matches: "Successfully invoked: <WorkflowName>-<n>"
InvokedLine(n) == [kind |-> "invoked", name |-> <<WorkflowName, n>>]
\* the single line "".split("\n") gives for an empty log object
BlankLine == [kind |-> "text", name |-> <<>>]

\* log_content["Body"].read().decode("utf-8").strip().split("\n")
DecodeLog(content) == IF content = <<>> THEN <<BlankLine>> ELSE content

\* failed_regex.search("\n".join(logs)) is not None
FailedRegexSearch(logs) == \E i \in 1..Len(logs) : logs[i].kind = "error"

\* re.sub(r"^" + self.workflow_name + "-", "", invocation)
StripWorkflowName(name) ==
  IF Len(name) = 2 /\ name[1] = WorkflowName THEN <<name[2]>> ELSE name

\* the set built from invoked_regex.findall("\n".join(logs))
InvokedSet(logs) ==
  {StripWorkflowName(logs[i].name) : i \in {j \in 1..Len(logs) : logs[j].kind = "invoked"}}

(* ------------------------------- state -------------------------------- *)

VARIABLES
  \* the workflow definition (fixed after construction)
  function_names,      \* ActionList keys, in dict order
  workflow_invoke,     \* FunctionInvoke
  adj_graph,           \* build_adjacency_graph: name -> set of successors
  invoke_next_form,    \* per action, how ActionList[name]["InvokeNext"] is written:
                       \* "list" (a list of names), "str" (a single name) or
                       \* "dict" (a mapping with "True" and "False" branches)
  stream_logs,
  \* the blob store
  max_log_len,         \* longest log object the remote actions write
  s3_faults,           \* requests may fail with an error other than 404
  s3_log,              \* <folder>/<name>.txt : NoObject or a sequence of lines
  s3_done,             \* <folder>/function_completions/<name>.done exists
  \* WorkflowRunner fields
  function_statuses,
  function_logs,
  status_lock,         \* "free" or the thread holding _status_lock
  logs_locks,          \* per action: "free" or the thread holding _logs_locks[name]
  logs_threads,        \* per action: "none", or the stage of _logs_threads[name]
  new_logs,            \* per action: new_logs of its running _update_function_logs
  unjoined_threads,    \* per action: a thread was alive when _logs_threads[name]
                       \* was given a new thread, and runs on unreferenced
  monitoring_complete,
  shutdown_requested,
  \* the monitor thread (_monitor_workflow_execution)
  mon_pc,
  functions_to_check,  \* the snapshot of the pass
  idx,                 \* position of the for loop in functions_to_check
  failed,
  seconds_since_last_status_change,
  time_since_change,   \* time.time() - last_status_change_time, capped at Timeout
  invokers,            \* _was_invoked: invokers still to visit
  invoker,             \* _was_invoked: the invoker whose log lock is held
  new_status,          \* the status about to be written
  \* a caller of shutdown() / force_shutdown()
  sh_pc,
  wait_timeout,        \* "unbound" until line 481 assigns it
  sh_result,
  \* main()
  main_pc,
  main_return,         \* what main() returned, -1 until it returns
  \* VM orchestration (FaaSr_py/vm)
  requires_vm,         \* ActionList[name]["RequiresVM"]
  vm_calls,            \* the entry points the actions call: "orchestrate_vm",
                       \* "pre_post" (pre- and post-execution) or "none"
  vm_running,          \* the instance is running, as describe_instances reports
  vm_ops,              \* what the actions did to the instance: <<operation, action>>
  vm_stage,            \* per action: how far its run has come
  vm_config,           \* how VMConfig is written: "valid", "absent", or the
                       \* required field that is missing or empty
  vm_strategy,         \* VMConfig["Strategy"], "absent" when the key is not there
  vm_faults,           \* provider calls may fail and the instance may boot slowly
  vm_healthy,          \* the instance and system status checks of the instance pass
  vm_call              \* the last call of an entry point: what it was given,
                       \* the requests it made and how it ended

workflow_vars == <<function_names, workflow_invoke, adj_graph, invoke_next_form, stream_logs>>
s3_vars == <<max_log_len, s3_faults, s3_log, s3_done>>
runner_vars == <<function_statuses, function_logs, status_lock, logs_locks,
                 logs_threads, new_logs, unjoined_threads, monitoring_complete,
                 shutdown_requested>>
mon_vars == <<mon_pc, functions_to_check, idx, failed,
              seconds_since_last_status_change, time_since_change,
              invokers, invoker, new_status>>
sh_vars == <<sh_pc, wait_timeout, sh_result>>
main_vars == <<main_pc, main_return>>
vm_vars == <<requires_vm, vm_calls, vm_running, vm_ops, vm_stage,
            vm_config, vm_strategy, vm_faults, vm_healthy, vm_call>>
vars == <<workflow_vars, s3_vars, runner_vars, mon_vars, sh_vars, main_vars, vm_vars>>

Names == {function_names[i] : i \in 1..Len(function_names)}

\* mutant of AddInvoked: the invoker is assigned, not added
RECURSIVE AddInvokedOverwrite(_, _, _)
AddInvokedOverwrite(reverse, inv, invoked) ==
  IF invoked = {} THEN reverse
  ELSE LET function == CHOOSE f \in invoked : TRUE
           added == [k \in DOMAIN reverse \cup {function} |->
                       IF k = function THEN {inv} ELSE reverse[k]]
       IN  AddInvokedOverwrite(added, inv, invoked \ {function})

\* lines 197-198, the inner loop:
\* for function in invoked: reverse_adj_graph[function].add(invoker)
RECURSIVE AddInvoked(_, _, _)
AddInvoked(reverse, inv, invoked) ==
  IF invoked = {} THEN reverse
  ELSE LET function == CHOOSE f \in invoked : TRUE
           old == IF function \in DOMAIN reverse THEN reverse[function] ELSE {}
           added == [k \in DOMAIN reverse \cup {function} |->
                       IF k = function THEN old \cup {inv} ELSE reverse[k]]
       IN  AddInvoked(added, inv, invoked \ {function})

\* line 196, the outer loop: for invoker, invoked in self.adj_graph.items()
RECURSIVE BuildReverse(_, _)
BuildReverse(reverse, i) ==
  IF i > Len(function_names) THEN reverse
  ELSE BuildReverse(AddInvoked(reverse, function_names[i], adj_graph[function_names[i]]),
                    i + 1)

\* _build_reverse_adjacency_graph: the keys are the actions some action invokes
build_reverse_adjacency_graph == BuildReverse([k \in {} |-> {}], 1)

\* self.reverse_adj_graph[function] (a defaultdict(set): absent keys read as empty)
reverse_adj_graph(function) ==
  LET reverse == build_reverse_adjacency_graph
  IN  IF function \in DOMAIN reverse THEN reverse[function] ELSE {}

(* ------------------------------- Init --------------------------------- *)

\* the workflow A -> B
WorkflowAB ==
  /\ function_names = <<"A", "B">>
  /\ workflow_invoke = "A"
  /\ adj_graph = [n \in {"A", "B"} |-> IF n = "A" THEN {"B"} ELSE {}]
  /\ invoke_next_form = [n \in {"A", "B"} |-> "list"]

\* the workflow A -> {B, C}
WorkflowFanOut ==
  /\ function_names = <<"A", "B", "C">>
  /\ workflow_invoke = "A"
  /\ adj_graph = [n \in {"A", "B", "C"} |-> IF n = "A" THEN {"B", "C"} ELSE {}]
  /\ invoke_next_form = [n \in {"A", "B", "C"} |-> "list"]

\* mutant of InitialStatus: the start action is not told apart
InitialStatusAllPending(function_name) == PENDING

\* lines 93-95: the status an action is constructed with
InitialStatus(function_name) ==
  IF function_name = workflow_invoke THEN INVOKED ELSE PENDING

\* WorkflowRunner.__init__
RunnerInit ==
  /\ function_statuses = [n \in Names |-> InitialStatus(n)]
  /\ function_logs = [n \in Names |-> <<>>]
  /\ status_lock = "free"
  /\ logs_locks = [n \in Names |-> "free"]
  /\ logs_threads = [n \in Names |-> "none"]
  /\ new_logs = [n \in Names |-> <<>>]
  /\ unjoined_threads = [n \in Names |-> FALSE]
  /\ monitoring_complete = FALSE
  /\ shutdown_requested = FALSE
  /\ mon_pc = "idle"
  /\ functions_to_check = [n \in Names |-> PENDING]
  /\ idx = 1
  /\ failed = FALSE
  /\ seconds_since_last_status_change = 0
  /\ time_since_change = 0
  /\ invokers = {}
  /\ invoker = ""
  /\ new_status = ""
  /\ sh_pc = "idle"
  /\ wait_timeout = "unbound"
  /\ sh_result = "none"
  /\ main_pc = "start"
  /\ main_return = -1

\* no entry point has been called yet
NoCall ==
  [op |-> "none", by |-> "", was |-> "stopped", api |-> <<>>,
   outcome |-> "none", runner |-> "none", slept |-> 0]

\* no action requires the VM and nothing is orchestrated
NoVM ==
  /\ requires_vm = [n \in Names |-> FALSE]
  /\ vm_calls = "none"
  /\ vm_running = FALSE
  /\ vm_ops = {}
  /\ vm_stage = [n \in Names |-> "waiting"]
  /\ vm_config = "absent"
  /\ vm_strategy = "absent"
  /\ vm_faults = FALSE
  /\ vm_healthy = FALSE
  /\ vm_call = NoCall

\* the blob store before the workflow is triggered
BlobStoreInit ==
  /\ s3_log = [n \in Names |-> NoObject]
  /\ s3_done = [n \in Names |-> FALSE]

Init ==
  /\ WorkflowAB
  /\ stream_logs \in BOOLEAN
  /\ max_log_len = MaxLogLen
  /\ s3_faults = TRUE
  /\ BlobStoreInit
  /\ RunnerInit
  /\ NoVM

InitFanOut ==
  /\ WorkflowFanOut
  /\ stream_logs = TRUE
  /\ max_log_len = FanOutLogLen
  /\ s3_faults = TRUE
  /\ BlobStoreInit
  /\ RunnerInit
  /\ NoVM

(* ---------------------------- the blob store -------------------------- *)

\* the lines the action n writes to its log
LogAlphabet(n) == {ErrorLine} \cup {InvokedLine(s) : s \in adj_graph[n]}

\* a remote action runs once it is invoked: it is the start action, or the log
\* of one of its predecessors holds its invocation marker
RemoteInvoked(n) ==
  \/ n = workflow_invoke
  \/ \E p \in reverse_adj_graph(n) :
       /\ s3_log[p] # NoObject
       /\ \E i \in 1..Len(s3_log[p]) : s3_log[p][i] = InvokedLine(n)

\* a remote action creates its log object
RemoteCreateLog(n) ==
  /\ RemoteInvoked(n)
  /\ s3_log[n] = NoObject
  /\ s3_log' = [s3_log EXCEPT ![n] = <<>>]
  /\ UNCHANGED <<max_log_len, s3_faults, s3_done, workflow_vars, runner_vars, mon_vars, sh_vars, main_vars, vm_vars>>

\* a remote action appends a line to its log object (each of its lines once)
RemoteAppendLog(n, line) ==
  /\ s3_log[n] # NoObject
  /\ Len(s3_log[n]) < max_log_len
  /\ \A i \in 1..Len(s3_log[n]) : s3_log[n][i] # line
  /\ s3_log' = [s3_log EXCEPT ![n] = Append(@, line)]
  /\ UNCHANGED <<max_log_len, s3_faults, s3_done, workflow_vars, runner_vars, mon_vars, sh_vars, main_vars, vm_vars>>

\* a remote action writes its completion marker
RemoteDone(n) ==
  /\ s3_log[n] # NoObject
  /\ ~s3_done[n]
  /\ s3_done' = [s3_done EXCEPT ![n] = TRUE]
  /\ UNCHANGED <<max_log_len, s3_faults, s3_log, workflow_vars, runner_vars, mon_vars, sh_vars, main_vars, vm_vars>>

\* time passes
Tick ==
  /\ mon_pc \notin {"idle", "done"}
  /\ time_since_change < Timeout
  /\ time_since_change' = time_since_change + 1
  /\ UNCHANGED <<workflow_vars, s3_vars, runner_vars, sh_vars, main_vars, vm_vars,
                 mon_pc, functions_to_check, idx, failed,
                 seconds_since_last_status_change, invokers, invoker, new_status>>

(* ------------------------ log-tailing workers ------------------------- *)

\* _update_function_logs, lines 336-342: get_object and decode
WorkerFetch(n) ==
  /\ logs_threads[n] = "fetching"
  /\ IF s3_log[n] = NoObject
       THEN /\ logs_threads' = [logs_threads EXCEPT ![n] = "dead"]
            /\ UNCHANGED new_logs
       ELSE /\ logs_threads' = [logs_threads EXCEPT ![n] = "fetched"]
            /\ new_logs' = [new_logs EXCEPT ![n] = DecodeLog(s3_log[n])]
  /\ UNCHANGED <<function_statuses, function_logs, status_lock, logs_locks,
                 unjoined_threads, monitoring_complete, shutdown_requested>>
  /\ UNCHANGED <<workflow_vars, s3_vars, mon_vars, sh_vars, main_vars, vm_vars>>

\* line 344: with self._logs_locks[function_name]
WorkerLock(n) ==
  /\ logs_threads[n] = "fetched"
  /\ logs_locks[n] = "free"
  /\ logs_locks' = [logs_locks EXCEPT ![n] = "worker"]
  /\ logs_threads' = [logs_threads EXCEPT ![n] = "locked"]
  /\ UNCHANGED <<function_statuses, function_logs, status_lock, new_logs,
                 unjoined_threads, monitoring_complete, shutdown_requested>>
  /\ UNCHANGED <<workflow_vars, s3_vars, mon_vars, sh_vars, main_vars, vm_vars>>

\* lines 345-350: the buffer is replaced by new_logs, the lock released
WorkerStore(n) ==
  /\ logs_threads[n] = "locked"
  /\ function_logs' = [function_logs EXCEPT ![n] = new_logs[n]]
  /\ new_logs' = [new_logs EXCEPT ![n] = <<>>]
  /\ logs_locks' = [logs_locks EXCEPT ![n] = "free"]
  /\ logs_threads' = [logs_threads EXCEPT ![n] = "dead"]
  /\ UNCHANGED <<function_statuses, status_lock, unjoined_threads,
                 monitoring_complete, shutdown_requested>>
  /\ UNCHANGED <<workflow_vars, s3_vars, mon_vars, sh_vars, main_vars, vm_vars>>

IsAlive(stage) == stage \in {"fetching", "fetched", "locked"}

(* --------------------------- the monitor thread ----------------------- *)

\* the function the for loop of line 227 is at
Cur == function_names[idx]

MonUnchangedOthers == UNCHANGED <<workflow_vars, s3_vars, sh_vars, main_vars, vm_vars>>

\* mutant of SecondsAfterTransition: a transition leaves the counter as it is
SecondsNotReset(seconds) == seconds

\* lines 252, 263, 272, 283: seconds_since_last_status_change = 0
SecondsAfterTransition(seconds) == 0

\* lines 291-293: seconds_since_last_status_change = time.time() - last_status_change_time,
\* then the next function of the pass
ElseBranch ==
  /\ seconds_since_last_status_change' = time_since_change
  /\ idx' = idx + 1
  /\ mon_pc' = "for"

\* trigger_workflow, lines 571-574, and lines 211-212
MonitorStart ==
  /\ mon_pc = "idle"
  /\ mon_pc' = "while"
  /\ time_since_change' = 0
  /\ seconds_since_last_status_change' = 0
  /\ UNCHANGED <<functions_to_check, idx, failed, invokers, invoker, new_status>>
  /\ UNCHANGED runner_vars
  /\ MonUnchangedOthers

\* mutant of LoopCondition: the loop does not look at the inactivity counter
LoopWhileNotShutdown(seconds, shutdown) == ~shutdown

\* lines 214-217: the loop condition
LoopCondition(seconds, shutdown) == seconds < Timeout /\ ~shutdown

\* lines 214-218
MonWhile ==
  /\ mon_pc = "while"
  /\ IF LoopCondition(seconds_since_last_status_change, shutdown_requested)
       THEN /\ failed' = FALSE
            /\ mon_pc' = "snapshot"
       ELSE /\ mon_pc' = "sweep"
            /\ UNCHANGED failed
  /\ UNCHANGED <<functions_to_check, idx, seconds_since_last_status_change,
                 time_since_change, invokers, invoker, new_status>>
  /\ UNCHANGED runner_vars
  /\ MonUnchangedOthers

\* line 221: with self._status_lock
MonSnapshotLock ==
  /\ mon_pc = "snapshot"
  /\ status_lock = "free"
  /\ status_lock' = "monitor"
  /\ mon_pc' = "snapshot_locked"
  /\ UNCHANGED <<functions_to_check, idx, failed, seconds_since_last_status_change,
                 time_since_change, invokers, invoker, new_status>>
  /\ UNCHANGED <<function_statuses, function_logs, logs_locks, logs_threads,
                 new_logs, unjoined_threads, monitoring_complete, shutdown_requested>>
  /\ MonUnchangedOthers

\* mutant of MonSnapshot: the for loop runs inside the with block of line 221
MonSnapshotKeepLock ==
  /\ mon_pc = "snapshot_locked"
  /\ functions_to_check' = function_statuses
  /\ idx' = 1
  /\ mon_pc' = "for"
  /\ UNCHANGED <<failed, seconds_since_last_status_change, time_since_change,
                 invokers, invoker, new_status>>
  /\ UNCHANGED runner_vars
  /\ MonUnchangedOthers

\* lines 222-224: the snapshot of the pass
MonSnapshot ==
  /\ mon_pc = "snapshot_locked"
  /\ functions_to_check' = function_statuses
  /\ status_lock' = "free"
  /\ idx' = 1
  /\ mon_pc' = "for"
  /\ UNCHANGED <<failed, seconds_since_last_status_change, time_since_change,
                 invokers, invoker, new_status>>
  /\ UNCHANGED <<function_statuses, function_logs, logs_locks, logs_threads,
                 new_logs, unjoined_threads, monitoring_complete, shutdown_requested>>
  /\ MonUnchangedOthers

\* line 228: does this pass start a log-tailing round for a function of this status
TailsLogs(status) == stream_logs /\ status \notin {PENDING, INVOKED}

\* mutant of LogsThreadRunning: the previous thread is not looked at
LogsThreadNeverRunning(stage) == FALSE

\* lines 232-240: logs_thread_running, the previous thread of the function is
\* still alive after join(timeout=3)
LogsThreadRunning(stage) == IsAlive(stage)

\* lines 227-293: the head of the for loop: the log-tailing round of lines 228-248
\* (a round is skipped while the previous thread is alive after join(timeout=3)),
\* then the branch on the snapshot status
MonFor ==
  /\ mon_pc = "for"
  /\ IF idx > Len(function_names)
       THEN /\ mon_pc' = "all_check"
            /\ UNCHANGED <<idx, seconds_since_last_status_change, invokers,
                           logs_threads, unjoined_threads>>
       ELSE LET status == functions_to_check[Cur] IN
            /\ IF TailsLogs(status) /\ ~LogsThreadRunning(logs_threads[Cur])
                 THEN /\ logs_threads' = [logs_threads EXCEPT ![Cur] = "fetching"]
                      /\ unjoined_threads' =
                           [unjoined_threads EXCEPT ![Cur] = @ \/ IsAlive(logs_threads[Cur])]
                 ELSE UNCHANGED <<logs_threads, unjoined_threads>>
            /\ CASE status = PENDING ->
                      /\ mon_pc' = "was_invoked"
                      /\ invokers' = reverse_adj_graph(Cur)
                      /\ UNCHANGED <<idx, seconds_since_last_status_change>>
                 [] status = INVOKED ->
                      /\ mon_pc' = "check_running"
                      /\ UNCHANGED <<idx, seconds_since_last_status_change, invokers>>
                 [] status = RUNNING ->
                      /\ mon_pc' = "check_failed"
                      /\ UNCHANGED <<idx, seconds_since_last_status_change, invokers>>
                 [] OTHER ->
                      /\ ElseBranch
                      /\ UNCHANGED invokers
  /\ UNCHANGED <<functions_to_check, failed, time_since_change, invoker, new_status>>
  /\ UNCHANGED <<function_statuses, function_logs, status_lock, logs_locks,
                 new_logs, monitoring_complete, shutdown_requested>>
  /\ MonUnchangedOthers

\* mutant of InvokerCounts: the invoker's status is not looked at
InvokerCountsAnyStatus(inv) == TRUE

\* line 421: an invoker counts only when its status is COMPLETED
InvokerCounts(inv) == function_statuses[inv] = COMPLETED

\* lines 420-424: the next invoker; its log lock is taken when it counts
MonWasInvoked ==
  /\ mon_pc = "was_invoked"
  /\ IF invokers = {}
       THEN /\ idx' = idx + 1
            /\ mon_pc' = "for"
            /\ UNCHANGED <<invokers, invoker, logs_locks>>
       ELSE \E inv \in invokers :
              IF ~InvokerCounts(inv)
                THEN /\ invokers' = invokers \ {inv}
                     /\ UNCHANGED <<idx, mon_pc, invoker, logs_locks>>
                ELSE /\ logs_locks[inv] = "free"
                     /\ logs_locks' = [logs_locks EXCEPT ![inv] = "monitor"]
                     /\ invoker' = inv
                     /\ mon_pc' = "was_invoked_locked"
                     /\ UNCHANGED <<idx, invokers>>
  /\ UNCHANGED <<functions_to_check, failed, seconds_since_last_status_change,
                 time_since_change, new_status>>
  /\ UNCHANGED <<function_statuses, function_logs, status_lock, logs_threads,
                 new_logs, unjoined_threads, monitoring_complete, shutdown_requested>>
  /\ MonUnchangedOthers

\* lines 425-431: is function_name among the names the invoker's log invoked
NamedIn(function_name, logs) == <<function_name>> \in InvokedSet(logs)

\* mutant of MonWasInvokedRead: the invoker's lock is kept after the search
MonWasInvokedReadKeepLock ==
  /\ mon_pc = "was_invoked_locked"
  /\ invoker' = ""
  /\ IF NamedIn(Cur, function_logs[invoker])
       THEN /\ new_status' = INVOKED
            /\ seconds_since_last_status_change' =
                   SecondsAfterTransition(seconds_since_last_status_change)
            /\ time_since_change' = 0
            /\ mon_pc' = "set_status"
            /\ UNCHANGED invokers
       ELSE /\ invokers' = invokers \ {invoker}
            /\ mon_pc' = "was_invoked"
            /\ UNCHANGED <<new_status, seconds_since_last_status_change,
                           time_since_change>>
  /\ UNCHANGED <<functions_to_check, idx, failed>>
  /\ UNCHANGED runner_vars
  /\ MonUnchangedOthers

\* lines 425-432 and 252-253: the invoker's buffer is searched under its lock
MonWasInvokedRead ==
  /\ mon_pc = "was_invoked_locked"
  /\ logs_locks' = [logs_locks EXCEPT ![invoker] = "free"]
  /\ invoker' = ""
  /\ IF NamedIn(Cur, function_logs[invoker])
       THEN /\ new_status' = INVOKED
            /\ seconds_since_last_status_change' =
                   SecondsAfterTransition(seconds_since_last_status_change)
            /\ time_since_change' = 0
            /\ mon_pc' = "set_status"
            /\ UNCHANGED invokers
       ELSE /\ invokers' = invokers \ {invoker}
            /\ mon_pc' = "was_invoked"
            /\ UNCHANGED <<new_status, seconds_since_last_status_change,
                           time_since_change>>
  /\ UNCHANGED <<functions_to_check, idx, failed>>
  /\ UNCHANGED <<function_statuses, function_logs, status_lock, logs_threads,
                 new_logs, unjoined_threads, monitoring_complete, shutdown_requested>>
  /\ MonUnchangedOthers

\* does a head_object request go through (True), or raise an error other than
\* 404 (False), which lines 373-376 and 413-416 turn into the answer False
RequestOutcomes == IF s3_faults THEN BOOLEAN ELSE {TRUE}

\* _check_function_running, lines 352-376: head_object on the log object; a 404 and
\* any other error both give False
CheckFunctionRunning(function_name, request_ok) ==
  request_ok /\ s3_log[function_name] # NoObject

\* lines 260-266
MonCheckRunning ==
  /\ mon_pc = "check_running"
  /\ \E request_ok \in RequestOutcomes :
       IF CheckFunctionRunning(Cur, request_ok)
         THEN /\ new_status' = RUNNING
              /\ seconds_since_last_status_change' =
                   SecondsAfterTransition(seconds_since_last_status_change)
              /\ time_since_change' = 0
              /\ mon_pc' = "set_status"
              /\ UNCHANGED idx
         ELSE /\ ElseBranch
              /\ UNCHANGED <<new_status, time_since_change>>
  /\ UNCHANGED <<functions_to_check, failed, invokers, invoker>>
  /\ UNCHANGED runner_vars
  /\ MonUnchangedOthers

\* _check_function_failed, lines 378-386: the buffer is read without its lock
CheckFunctionFailed(function_name) == FailedRegexSearch(function_logs[function_name])

\* lines 269-273
MonCheckFailed ==
  /\ mon_pc = "check_failed"
  /\ IF CheckFunctionFailed(Cur)
       THEN /\ new_status' = FAILED
            /\ seconds_since_last_status_change' =
                   SecondsAfterTransition(seconds_since_last_status_change)
            /\ time_since_change' = 0
            /\ mon_pc' = "set_status"
       ELSE /\ mon_pc' = "check_completion"
            /\ UNCHANGED <<new_status, seconds_since_last_status_change,
                           time_since_change>>
  /\ UNCHANGED <<functions_to_check, idx, failed, invokers, invoker>>
  /\ UNCHANGED runner_vars
  /\ MonUnchangedOthers

\* _check_function_completion, lines 388-416: head_object on the completion marker
CheckFunctionCompletion(function_name, request_ok) ==
  request_ok /\ s3_done[function_name]

\* lines 279-293
MonCheckCompletion ==
  /\ mon_pc = "check_completion"
  /\ \E request_ok \in RequestOutcomes :
       IF CheckFunctionCompletion(Cur, request_ok)
         THEN /\ new_status' = COMPLETED
              /\ seconds_since_last_status_change' =
                   SecondsAfterTransition(seconds_since_last_status_change)
              /\ time_since_change' = 0
              /\ mon_pc' = "set_status"
              /\ UNCHANGED idx
         ELSE /\ ElseBranch
              /\ UNCHANGED <<new_status, time_since_change>>
  /\ UNCHANGED <<functions_to_check, failed, invokers, invoker>>
  /\ UNCHANGED runner_vars
  /\ MonUnchangedOthers

\* mutant of MonSetStatusLock: the write is reached without taking _status_lock
MonSetStatusNoLock ==
  /\ mon_pc = "set_status"
  /\ mon_pc' = "set_status_locked"
  /\ UNCHANGED <<functions_to_check, idx, failed, seconds_since_last_status_change,
                 time_since_change, invokers, invoker, new_status>>
  /\ UNCHANGED runner_vars
  /\ MonUnchangedOthers

\* lines 254, 265, 274, 286: with self._status_lock
MonSetStatusLock ==
  /\ mon_pc = "set_status"
  /\ status_lock = "free"
  /\ status_lock' = "monitor"
  /\ mon_pc' = "set_status_locked"
  /\ UNCHANGED <<functions_to_check, idx, failed, seconds_since_last_status_change,
                 time_since_change, invokers, invoker, new_status>>
  /\ UNCHANGED <<function_statuses, function_logs, logs_locks, logs_threads,
                 new_logs, unjoined_threads, monitoring_complete, shutdown_requested>>
  /\ MonUnchangedOthers

\* lines 255-258, 266-267, 275-277, 287-288: the status is written
MonSetStatus ==
  /\ mon_pc = "set_status_locked"
  /\ function_statuses' = [function_statuses EXCEPT ![Cur] = new_status]
  /\ status_lock' = "free"
  /\ failed' = (failed \/ new_status = FAILED)
  /\ new_status' = ""
  /\ idx' = idx + 1
  /\ mon_pc' = "for"
  /\ UNCHANGED <<functions_to_check, seconds_since_last_status_change,
                 time_since_change, invokers, invoker>>
  /\ UNCHANGED <<function_logs, logs_locks, logs_threads, new_logs, unjoined_threads,
                 monitoring_complete, shutdown_requested>>
  /\ MonUnchangedOthers

\* mutant of AllCompleted: any() in place of all()
AnyCompleted(statuses) == \E n \in DOMAIN statuses : statuses[n] = COMPLETED

\* lines 295-298
AllCompleted(statuses) == \A n \in DOMAIN statuses : statuses[n] = COMPLETED

\* lines 295-303, 315: the end of a pass (the snapshot and the loop index are
\* dead from here on and are put back to their initial values)
MonAllCheck ==
  /\ mon_pc = "all_check"
  /\ mon_pc' = IF AllCompleted(function_statuses) THEN "sweep"
               ELSE IF failed THEN "cascade" ELSE "sleep"
  /\ functions_to_check' = [n \in Names |-> PENDING]
  /\ idx' = 1
  /\ UNCHANGED <<failed, seconds_since_last_status_change,
                 time_since_change, invokers, invoker, new_status>>
  /\ UNCHANGED runner_vars
  /\ MonUnchangedOthers

\* line 304
MonCascadeLock ==
  /\ mon_pc = "cascade"
  /\ status_lock = "free"
  /\ status_lock' = "monitor"
  /\ mon_pc' = "cascade_locked"
  /\ UNCHANGED <<functions_to_check, idx, failed, seconds_since_last_status_change,
                 time_since_change, invokers, invoker, new_status>>
  /\ UNCHANGED <<function_statuses, function_logs, logs_locks, logs_threads,
                 new_logs, unjoined_threads, monitoring_complete, shutdown_requested>>
  /\ MonUnchangedOthers

\* mutant of CascadeStatus: the cascade is left out
CascadeNothing(status) == status

\* lines 306-312
CascadeStatus(status) == IF status = PENDING THEN SKIPPED ELSE status

\* lines 305-313
MonCascade ==
  /\ mon_pc = "cascade_locked"
  /\ function_statuses' = [n \in Names |-> CascadeStatus(function_statuses[n])]
  /\ status_lock' = "free"
  /\ mon_pc' = "sweep"
  /\ UNCHANGED <<functions_to_check, idx, failed, seconds_since_last_status_change,
                 time_since_change, invokers, invoker, new_status>>
  /\ UNCHANGED <<function_logs, logs_locks, logs_threads, new_logs, unjoined_threads,
                 monitoring_complete, shutdown_requested>>
  /\ MonUnchangedOthers

\* line 315: time.sleep(self.check_interval)
MonSleep ==
  /\ mon_pc = "sleep"
  /\ mon_pc' = "while"
  /\ UNCHANGED <<functions_to_check, idx, failed, seconds_since_last_status_change,
                 time_since_change, invokers, invoker, new_status>>
  /\ UNCHANGED runner_vars
  /\ MonUnchangedOthers

\* line 318
MonSweepLock ==
  /\ mon_pc = "sweep"
  /\ status_lock = "free"
  /\ status_lock' = "monitor"
  /\ mon_pc' = "sweep_locked"
  /\ UNCHANGED <<functions_to_check, idx, failed, seconds_since_last_status_change,
                 time_since_change, invokers, invoker, new_status>>
  /\ UNCHANGED <<function_statuses, function_logs, logs_locks, logs_threads,
                 new_logs, unjoined_threads, monitoring_complete, shutdown_requested>>
  /\ MonUnchangedOthers

\* mutant of SweepStatus: the sweep does not look at the shutdown flag
SweepAlwaysTimeout(status, shutdown) ==
  IF status = PENDING \/ status = RUNNING THEN TIMEOUT ELSE status

\* mutant of SweepStatus: the sweep also takes INVOKED functions
SweepAlsoInvoked(status, shutdown) ==
  IF status = PENDING \/ status = RUNNING \/ status = INVOKED
    THEN IF shutdown THEN SKIPPED ELSE TIMEOUT
    ELSE status

\* mutant of SweepStatus: the sweep does not look at the status
SweepEveryStatus(status, shutdown) == IF shutdown THEN SKIPPED ELSE TIMEOUT

\* lines 320-328
SweepStatus(status, shutdown) ==
  IF status = PENDING \/ status = RUNNING
    THEN IF shutdown THEN SKIPPED ELSE TIMEOUT
    ELSE status

\* lines 319-328: the sweep after the loop
MonSweep ==
  /\ mon_pc = "sweep_locked"
  /\ function_statuses' =
       [n \in Names |-> SweepStatus(function_statuses[n], shutdown_requested)]
  /\ status_lock' = "free"
  /\ mon_pc' = "complete"
  /\ UNCHANGED <<functions_to_check, idx, failed, seconds_since_last_status_change,
                 time_since_change, invokers, invoker, new_status>>
  /\ UNCHANGED <<function_logs, logs_locks, logs_threads, new_logs, unjoined_threads,
                 monitoring_complete, shutdown_requested>>
  /\ MonUnchangedOthers

\* line 331
MonCompleteLock ==
  /\ mon_pc = "complete"
  /\ status_lock = "free"
  /\ status_lock' = "monitor"
  /\ mon_pc' = "complete_locked"
  /\ UNCHANGED <<functions_to_check, idx, failed, seconds_since_last_status_change,
                 time_since_change, invokers, invoker, new_status>>
  /\ UNCHANGED <<function_statuses, function_logs, logs_locks, logs_threads,
                 new_logs, unjoined_threads, monitoring_complete, shutdown_requested>>
  /\ MonUnchangedOthers

\* line 332: the thread ends
MonComplete ==
  /\ mon_pc = "complete_locked"
  /\ monitoring_complete' = TRUE
  /\ status_lock' = "free"
  /\ mon_pc' = "done"
  /\ UNCHANGED <<functions_to_check, idx, failed, seconds_since_last_status_change,
                 time_since_change, invokers, invoker, new_status>>
  /\ UNCHANGED <<function_statuses, function_logs, logs_locks, logs_threads,
                 new_logs, unjoined_threads, shutdown_requested>>
  /\ MonUnchangedOthers

Monitor ==
  \/ MonitorStart \/ MonWhile \/ MonSnapshotLock \/ MonSnapshot \/ MonFor
  \/ MonWasInvoked \/ MonWasInvokedRead \/ MonCheckRunning \/ MonCheckFailed
  \/ MonCheckCompletion \/ MonSetStatusLock \/ MonSetStatus \/ MonAllCheck
  \/ MonCascadeLock \/ MonCascade \/ MonSleep \/ MonSweepLock \/ MonSweep
  \/ MonCompleteLock \/ MonComplete

(* ----------------------- shutdown / force_shutdown --------------------- *)

\* The critical sections of the callers (shutdown, force_shutdown, main) hold
\* no blocking call: each is one step, taken while _status_lock is free.

\* self._monitoring_thread.is_alive()
MonitorAlive == mon_pc \notin {"idle", "done"}

\* the keys of self._logs_threads
StartedLogsThreads == {n \in Names : logs_threads[n] # "none"}

\* lines 467-470: the early-return test
NothingToShutDown ==
  /\ (mon_pc = "idle" \/ ~MonitorAlive)
  /\ \/ StartedLogsThreads = {}
     \/ ~(\A n \in StartedLogsThreads : IsAlive(logs_threads[n]))

\* lines 484-486 and 496-498
AnyLogsThreadAlive ==
  StartedLogsThreads # {} /\ \E n \in StartedLogsThreads : IsAlive(logs_threads[n])

ShUnchangedOthers == UNCHANGED <<workflow_vars, s3_vars, mon_vars, main_vars, vm_vars>>

\* shutdown(), lines 467-473
ShutdownCall ==
  /\ sh_pc = "idle"
  /\ IF NothingToShutDown
       THEN /\ sh_result' = "True"
            /\ sh_pc' = "returned"
       ELSE /\ sh_pc' = IF MonitorAlive THEN "request" ELSE "join_logs"
            /\ UNCHANGED sh_result
  /\ UNCHANGED wait_timeout
  /\ UNCHANGED runner_vars
  /\ ShUnchangedOthers

\* lines 477-482: the flag is set under the status lock, wait_timeout is bound,
\* and the monitor thread is joined for at most wait_timeout
ShutdownRequest ==
  /\ sh_pc = "request"
  /\ status_lock = "free"
  /\ shutdown_requested' = TRUE
  /\ wait_timeout' = "bound"
  /\ sh_pc' = "join_logs"
  /\ UNCHANGED sh_result
  /\ UNCHANGED <<function_statuses, function_logs, status_lock, logs_locks,
                 logs_threads, new_logs, unjoined_threads, monitoring_complete>>
  /\ ShUnchangedOthers

\* lines 484-489: the bounded joins of the log threads; wait_timeout is read
\* although line 481 may not have run
ShutdownJoinLogs ==
  /\ sh_pc = "join_logs"
  /\ IF AnyLogsThreadAlive /\ wait_timeout = "unbound"
       THEN /\ sh_result' = "raise"
            /\ sh_pc' = "returned"
       ELSE /\ sh_pc' = "final"
            /\ UNCHANGED sh_result
  /\ UNCHANGED wait_timeout
  /\ UNCHANGED runner_vars
  /\ ShUnchangedOthers

\* lines 491-503: the value shutdown() returns after the joins
ShutdownVerdict ==
  IF MonitorAlive THEN "False"
  ELSE IF AnyLogsThreadAlive THEN "False"
  ELSE "True"

\* lines 491-503
ShutdownFinal ==
  /\ sh_pc = "final"
  /\ sh_result' = IF mon_pc = "idle" THEN "raise" ELSE ShutdownVerdict
  /\ sh_pc' = "returned"
  /\ UNCHANGED wait_timeout
  /\ UNCHANGED runner_vars
  /\ ShUnchangedOthers

\* force_shutdown(), lines 510-515, called when shutdown() returned False
\* (conftest.py lines 53-55, cleanup lines 525-527)
ForceShutdown ==
  /\ sh_pc = "returned"
  /\ sh_result = "False"
  /\ IF MonitorAlive
       THEN /\ status_lock = "free"
            /\ shutdown_requested' = TRUE
            /\ monitoring_complete' = TRUE
       ELSE UNCHANGED <<shutdown_requested, monitoring_complete>>
  /\ sh_pc' = "forced"
  /\ UNCHANGED <<wait_timeout, sh_result>>
  /\ UNCHANGED <<function_statuses, function_logs, status_lock, logs_locks,
                 logs_threads, new_logs, unjoined_threads>>
  /\ ShUnchangedOthers

Caller ==
  \/ ShutdownCall \/ ShutdownRequest \/ ShutdownJoinLogs \/ ShutdownFinal
  \/ ForceShutdown

(* -------------------------------- main -------------------------------- *)

MainUnchangedOthers == UNCHANGED <<workflow_vars, s3_vars, mon_vars, sh_vars, vm_vars>>

\* main, lines 609-640: is_monitoring_complete (lines 445-448) is polled until
\* it answers True
MainPoll ==
  /\ main_pc = "start"
  /\ mon_pc # "idle"
  /\ status_lock = "free"
  /\ main_pc' = IF monitoring_complete THEN "final" ELSE "start"
  /\ UNCHANGED main_return
  /\ UNCHANGED runner_vars
  /\ MainUnchangedOthers

\* lines 649-658: the exit code
ExitCode(final_statuses) == IF AllCompleted(final_statuses) THEN 0 ELSE 1

\* lines 643-658: get_function_statuses (lines 440-443), then the exit code
MainFinal ==
  /\ main_pc = "final"
  /\ status_lock = "free"
  /\ main_return' = ExitCode(function_statuses)
  /\ main_pc' = "done"
  /\ UNCHANGED runner_vars
  /\ MainUnchangedOthers

Main == MainPoll \/ MainFinal

(* ---------------------------- specification --------------------------- *)

Remote ==
  \E n \in Names :
    \/ RemoteCreateLog(n)
    \/ \E line \in LogAlphabet(n) : RemoteAppendLog(n, line)
    \/ RemoteDone(n)

Worker == \E n \in Names : WorkerFetch(n) \/ WorkerLock(n) \/ WorkerStore(n)

Next == Remote \/ Tick \/ Worker \/ Monitor \/ Caller \/ Main

\* the whole runner on the workflow A -> B
Spec == Init /\ [][Next]_vars

\* the whole runner on the workflow A -> B with its threads scheduled: the
\* monitor thread and the log-tailing workers keep running, and time passes
\* (time.sleep(check_interval), line 315, returns)
SpecFair == Spec /\ WF_vars(Monitor) /\ WF_vars(Worker) /\ WF_vars(Tick)

\* the monitor and its workers alone, no clock and no shutdown
NextFanOut == Remote \/ Worker \/ Monitor

\* the monitor on the fan-out workflow A -> {B, C}
SpecFanOut == InitFanOut /\ [][NextFanOut]_vars

(* ------------------- the scenario A -> {B, C} -> D --------------------- *)

\* the workflow A -> {B, C} -> D
WorkflowDiamond ==
  /\ function_names = <<"A", "B", "C", "D">>
  /\ workflow_invoke = "A"
  /\ adj_graph = [n \in {"A", "B", "C", "D"} |->
                   CASE n = "A" -> {"B", "C"}
                     [] n = "B" -> {"D"}
                     [] n = "C" -> {"D"}
                     [] OTHER -> {}]
  /\ invoke_next_form = [n \in {"A", "B", "C", "D"} |-> "list"]

InitScenario ==
  /\ WorkflowDiamond
  /\ stream_logs \in BOOLEAN
  /\ max_log_len = MaxLogLen
  /\ s3_faults = FALSE
  /\ BlobStoreInit
  /\ RunnerInit
  /\ NoVM

\* the remote actions of the scenario: A runs, invokes B and not C, and
\* completes; B runs, invokes nothing and completes, unless it breaks with an
\* error line; C and D never run
ScenarioRemote ==
  \/ RemoteCreateLog("A")
  \/ RemoteAppendLog("A", InvokedLine("B"))
  \/ RemoteDone("A")
  \/ RemoteCreateLog("B")
  \/ RemoteAppendLog("B", ErrorLine)
  \/ RemoteDone("B")

\* A and B have finished in the blob store
ScenarioStoreComplete ==
  /\ s3_done["A"]
  /\ s3_done["B"]
  /\ Len(s3_log["A"]) = 1

\* The timeout is long next to the remote actions and the tailing rounds: the
\* clock advances only during the sleep of line 315, once A and B have finished
\* and, where logs are tailed, the buffers of A and B hold their log objects.
ScenarioTick ==
  /\ ScenarioStoreComplete
  /\ mon_pc = "sleep"
  /\ stream_logs => \A n \in {"A", "B"} : function_logs[n] = DecodeLog(s3_log[n])
  /\ Tick

NextScenario == ScenarioRemote \/ ScenarioTick \/ Worker \/ Monitor

\* the monitor on the scenario workflow
SpecScenario == InitScenario /\ [][NextScenario]_vars

(* --------------------------- VM orchestration ------------------------- *)

\* mutant of action_requires_vm: every action is taken to require the VM
action_requires_vm_always(action_name) == TRUE

\* detection.py, action_requires_vm
action_requires_vm(action_name) ==
  action_name \in Names /\ requires_vm[action_name]

\* position.py lines 53-62: the actions found to invoke action_name. A list is
\* searched, a mapping is searched in its "True" and "False" branches, and an
\* InvokeNext written as a single name is in neither branch of the test
invoking_actions(action_name) ==
  {name \in Names : /\ invoke_next_form[name] \in {"list", "dict"}
                    /\ action_name \in adj_graph[name]}

\* position.py line 69, "not next_actions": an empty list is falsy, a name and
\* a mapping with branches are truthy
NextActionsEmpty(action_name) ==
  invoke_next_form[action_name] = "list" /\ adj_graph[action_name] = {}

\* position.py, get_action_position
get_action_position(action_name) ==
  [is_first |-> invoking_actions(action_name) = {},
   is_last |-> NextActionsEmpty(action_name)]

\* position.py, is_first_vm_action
is_first_vm_action(action_name) ==
  IF ~action_requires_vm(action_name) THEN FALSE
  ELSE IF get_action_position(action_name).is_first THEN TRUE
  ELSE ~\E name \in Names \ {action_name} :
          requires_vm[name] /\ get_action_position(name).is_first

\* mutant of is_last_vm_action: only the place of the action itself is looked at
is_last_vm_action_structural(action_name) ==
  action_requires_vm(action_name) /\ get_action_position(action_name).is_last

\* position.py, is_last_vm_action
is_last_vm_action(action_name) ==
  IF ~action_requires_vm(action_name) THEN FALSE
  ELSE IF get_action_position(action_name).is_last THEN TRUE
  ELSE ~\E name \in Names \ {action_name} :
          requires_vm[name] /\ get_action_position(name).is_last

\* position.py lines 22-28: the next actions that are looked at. A single name
\* becomes a one-element list, and anything that is not a list (a mapping with
\* "True" and "False" branches) becomes the empty list
next_actions(current_action) ==
  IF invoke_next_form[current_action] \in {"list", "str"}
    THEN adj_graph[current_action]
    ELSE {}

\* position.py, does_next_action_require_vm
does_next_action_require_vm(current_action) ==
  \E next_action \in next_actions(current_action) : requires_vm[next_action]

(* the provider: aws.py *)

\* a request made to the cloud API or the runner registry: who made it, what
\* it was and how it was answered
Api(who, command, result) == <<who, command, result>>

\* the ways a VMConfig can be written
ConfigKinds ==
  {"valid", "absent", "no_region", "empty_region", "no_instance_id", "no_access_key"}

\* detection.py, validate_vm_config: TRUE when it returns True, FALSE when it
\* raises ValueError (a required field is absent or empty)
validate_vm_config(config) == config = "valid"

\* aws.py lines 21-27 (and 80-86, 122-128): all([instance_id, region,
\* access_key, secret_key]), Region being read with the default "us-east-1"
RequiredParameters(config) == config \in {"valid", "no_region"}

\* what describe_instances and describe_instance_status report of the instance
\* (check_vm_status, lines 139-171)
InstanceState(running, healthy) ==
  IF ~running THEN "stopped" ELSE IF healthy THEN "healthy" ELSE "running"

\* the outcomes of check_vm_status: the state of the instance, or an exception
DescribeOutcomes(running, healthy) ==
  {InstanceState(running, healthy)} \cup (IF vm_faults THEN {"error"} ELSE {})

\* the outcomes of start_instances and stop_instances: the instance is
\* returned, no instance is returned, or an exception
CommandOutcomes == {"ok"} \cup (IF vm_faults THEN {"empty", "error"} ELSE {})

\* mutant of start_vm: the state of the instance is not looked at
start_vm_always(config, described, started) ==
  IF ~RequiredParameters(config)
    THEN [raised |-> TRUE, api |-> <<>>, did |-> "none"]
  ELSE [raised |-> started # "ok",
        api |-> <<Api("start_vm", "describe", described),
                  Api("start_vm", "start", started)>>,
        did |-> IF started = "ok" THEN "start" ELSE "start_failed"]

\* aws.py, start_vm: ValueError before any request when a parameter is missing
\* (lines 26-27); an instance seen running is left alone (lines 40-48), a
\* failed status check is passed over (lines 49-50); otherwise start_instances
\* is called (line 54) and its failure raised as RuntimeError (lines 65-68)
start_vm(config, described, started) ==
  IF ~RequiredParameters(config)
    THEN [raised |-> TRUE, api |-> <<>>, did |-> "none"]
  ELSE IF described \in {"running", "healthy"}
    THEN [raised |-> FALSE,
          api |-> <<Api("start_vm", "describe", described)>>,
          did |-> "start_skipped"]
  ELSE [raised |-> started # "ok",
        api |-> <<Api("start_vm", "describe", described),
                  Api("start_vm", "start", started)>>,
        did |-> IF started = "ok" THEN "start" ELSE "start_failed"]

\* aws.py, stop_vm: ValueError before any request when a parameter is missing
\* (lines 85-86); stop_instances is called (line 100) and its failure is
\* logged and answered with False (lines 106-110)
stop_vm(config, stopped) ==
  IF ~RequiredParameters(config)
    THEN [raised |-> TRUE, api |-> <<>>, did |-> "none"]
  ELSE [raised |-> FALSE,
        api |-> <<Api("stop_vm", "stop", stopped)>>,
        did |-> IF stopped = "ok" THEN "stop" ELSE "stop_failed"]

\* what the polls of wait_for_vm_ready can see, one per check interval: an
\* instance that was healthy stays so; a request may fail
WaitObservations(healthy) ==
  [1..(MaxWaitTime + 1) ->
     {"healthy"} \cup (IF vm_faults
                         THEN (IF healthy THEN {"error"} ELSE {"running", "error"})
                         ELSE {})]

\* aws.py lines 187-219, the loop of wait_for_vm_ready after `elapsed` check
\* intervals: it ends without result once elapsed_time > max_wait_time, it
\* ends when the instance is seen running with its checks passed, and it
\* sleeps one interval after any other answer
RECURSIVE WaitLoop(_, _)
WaitLoop(observations, elapsed) ==
  IF elapsed > MaxWaitTime THEN [ready |-> FALSE, api |-> <<>>]
  ELSE LET seen == observations[elapsed + 1]
           rest == IF seen = "healthy"
                     THEN [ready |-> TRUE, api |-> <<>>]
                     ELSE WaitLoop(observations, elapsed + 1)
       IN  [ready |-> rest.ready,
            api |-> <<Api("wait_for_vm_ready", "describe", seen)>> \o rest.api]

\* aws.py, wait_for_vm_ready(vm_config, vm_details): it returns None in both cases
wait_for_vm_ready(observations) == WaitLoop(observations, 0)

\* orchestration.py lines 101-102 and 170-171: start_vm, then wait_for_vm_ready
StartAndWait(config, described, started, observations) ==
  LET s == start_vm(config, described, started)
      w == wait_for_vm_ready(observations)
  IN  IF s.raised
        THEN [raised |-> TRUE, api |-> s.api, did |-> s.did,
              running |-> vm_running, healthy |-> vm_healthy]
        ELSE [raised |-> FALSE, api |-> s.api \o w.api, did |-> s.did,
              running |-> TRUE, healthy |-> vm_healthy \/ w.ready]

\* the operations an entry point called by the action `by` has done
DidOps(dids, by) == {<<d, by>> : d \in dids \ {"none"}}

\* the record of a call of an entry point
Call(op, by, api, outcome) ==
  [op |-> op, by |-> by, was |-> InstanceState(vm_running, vm_healthy),
   api |-> api, outcome |-> outcome, runner |-> "none", slept |-> 0]

(* the orchestration entry points: orchestration.py *)

\* orchestration.py, execute_strategy_simple_start_end: nothing is done without
\* a valid VMConfig (lines 152-162); STEP 1 (lines 165-177), then STEP 2
\* (lines 180-191), the exceptions of both being logged
execute_strategy_simple_start_end(current_action, described, started, observations, stopped) ==
  IF vm_config = "absent" \/ ~validate_vm_config(vm_config)
    THEN [api |-> <<>>, dids |-> {}, running |-> vm_running, healthy |-> vm_healthy]
  ELSE
    LET s == IF is_first_vm_action(current_action)
               THEN StartAndWait(vm_config, described, started, observations)
               ELSE [raised |-> FALSE, api |-> <<>>, did |-> "none",
                     running |-> vm_running, healthy |-> vm_healthy]
        t == IF is_last_vm_action(current_action)
               THEN stop_vm(vm_config, stopped)
               ELSE [raised |-> FALSE, api |-> <<>>, did |-> "none"]
    IN  [api |-> s.api \o t.api,
         dids |-> {s.did, t.did},
         running |-> IF t.did = "stop" THEN FALSE ELSE s.running,
         healthy |-> IF t.did = "stop" THEN FALSE ELSE s.healthy]

\* what VMConfig["Strategy"] can be: absent, the three names orchestrate_vm
\* knows, or any other value
Strategies == {"absent", "simple_start_end", "per_function", "optimized", "other"}

\* orchestration.py, get_vm_strategy: the default without VMConfig or without
\* its Strategy key
get_vm_strategy ==
  IF vm_config = "absent" \/ vm_strategy = "absent"
    THEN "simple_start_end"
    ELSE vm_strategy

\* mutant of dispatch_strategy: a strategy that is not implemented does nothing
dispatch_known_only(strategy, current_action, described, started, observations, stopped) ==
  IF strategy = "simple_start_end"
    THEN execute_strategy_simple_start_end(
           current_action, described, started, observations, stopped)
    ELSE [api |-> <<>>, dids |-> {}, running |-> vm_running, healthy |-> vm_healthy]

\* orchestration.py lines 56-69, the dispatch of orchestrate_vm to the
\* strategy handler
dispatch_strategy(strategy, current_action, described, started, observations, stopped) ==
  IF strategy = "simple_start_end"
    THEN execute_strategy_simple_start_end(
           current_action, described, started, observations, stopped)
  ELSE IF strategy = "per_function"
    THEN execute_strategy_simple_start_end(
           current_action, described, started, observations, stopped)
  ELSE IF strategy = "optimized"
    THEN execute_strategy_simple_start_end(
           current_action, described, started, observations, stopped)
  ELSE execute_strategy_simple_start_end(
         current_action, described, started, observations, stopped)

VMUnchangedOthers ==
  UNCHANGED <<workflow_vars, s3_vars, runner_vars, mon_vars, sh_vars, main_vars>>

\* an action is run once it is the start action or one of its invokers has run
VMInvoked(a) ==
  \/ a = workflow_invoke
  \/ \E p \in reverse_adj_graph(a) : vm_stage[p] \in {"executed", "finished"}

\* orchestration.py, orchestrate_vm, called before the action's body
orchestrate_vm(a) ==
  /\ vm_calls = "orchestrate_vm"
  /\ vm_stage[a] = "waiting"
  /\ VMInvoked(a)
  /\ IF action_requires_vm(a)
       THEN \E described \in DescribeOutcomes(vm_running, vm_healthy),
               started \in CommandOutcomes,
               observations \in WaitObservations(vm_healthy),
               stopped \in CommandOutcomes :
              LET r == dispatch_strategy(
                         get_vm_strategy, a, described, started, observations, stopped)
              IN  /\ vm_ops' = vm_ops \cup DidOps(r.dids, a)
                  /\ vm_running' = r.running
                  /\ vm_healthy' = r.healthy
                  /\ vm_call' = Call("orchestrate_vm", a, r.api, "returned")
       ELSE /\ vm_call' = Call("orchestrate_vm", a, <<>>, "returned")
            /\ UNCHANGED <<vm_ops, vm_running, vm_healthy>>
  /\ vm_stage' = [vm_stage EXCEPT ![a] = "ready"]
  /\ UNCHANGED <<requires_vm, vm_calls, vm_config, vm_strategy, vm_faults>>
  /\ VMUnchangedOthers

\* orchestration.py, orchestrate_vm_pre_execution, called before the body:
\* nothing is done without a valid VMConfig (lines 81-91); when a next action
\* requires the VM it is started and waited for, and an exception is raised
\* again (lines 97-106)
orchestrate_vm_pre_execution(a) ==
  /\ vm_calls = "pre_post"
  /\ vm_stage[a] = "waiting"
  /\ VMInvoked(a)
  /\ IF /\ vm_config # "absent"
        /\ validate_vm_config(vm_config)
        /\ does_next_action_require_vm(a)
       THEN \E described \in DescribeOutcomes(vm_running, vm_healthy),
               started \in CommandOutcomes,
               observations \in WaitObservations(vm_healthy) :
              LET r == StartAndWait(vm_config, described, started, observations)
              IN  /\ vm_ops' = vm_ops \cup DidOps({r.did}, a)
                  /\ vm_running' = r.running
                  /\ vm_healthy' = r.healthy
                  /\ vm_call' = Call("pre_execution", a, r.api,
                                     IF r.raised THEN "raised" ELSE "returned")
                  /\ vm_stage' = [vm_stage EXCEPT
                                    ![a] = IF r.raised THEN "failed" ELSE "ready"]
       ELSE /\ vm_call' = Call("pre_execution", a, <<>>, "returned")
            /\ vm_stage' = [vm_stage EXCEPT ![a] = "ready"]
            /\ UNCHANGED <<vm_ops, vm_running, vm_healthy>>
  /\ UNCHANGED <<requires_vm, vm_calls, vm_config, vm_strategy, vm_faults>>
  /\ VMUnchangedOthers

\* the body of the action runs
ActionBody(a) ==
  /\ vm_stage[a] = "ready"
  /\ vm_stage' = [vm_stage EXCEPT ![a] = "executed"]
  /\ UNCHANGED <<requires_vm, vm_calls, vm_running, vm_ops,
                 vm_config, vm_strategy, vm_faults, vm_healthy, vm_call>>
  /\ VMUnchangedOthers

\* mutant of PostExecutionOutcome: the exception of stop_vm is raised again
PostExecutionRaises(stop_raised) == IF stop_raised THEN "raised" ELSE "returned"

\* orchestration.py lines 130-135: an exception of stop_vm is logged, not raised
PostExecutionOutcome(stop_raised) == "returned"

\* orchestration.py, orchestrate_vm_post_execution, called after the body:
\* nothing is done without VMConfig (lines 121-122); the VM is stopped when
\* this is the last VM-requiring action (lines 127-135)
orchestrate_vm_post_execution(a) ==
  /\ vm_calls = "pre_post"
  /\ vm_stage[a] = "executed"
  /\ IF vm_config # "absent" /\ is_last_vm_action(a)
       THEN \E stopped \in CommandOutcomes :
              LET t == stop_vm(vm_config, stopped)
                  outcome == PostExecutionOutcome(t.raised)
              IN  /\ vm_ops' = vm_ops \cup DidOps({t.did}, a)
                  /\ vm_running' = IF t.did = "stop" THEN FALSE ELSE vm_running
                  /\ vm_healthy' = IF t.did = "stop" THEN FALSE ELSE vm_healthy
                  /\ vm_call' = Call("post_execution", a, t.api, outcome)
                  /\ vm_stage' = [vm_stage EXCEPT
                       ![a] = IF outcome = "raised" THEN "failed" ELSE "finished"]
       ELSE /\ vm_call' = Call("post_execution", a, <<>>, "returned")
            /\ vm_stage' = [vm_stage EXCEPT ![a] = "finished"]
            /\ UNCHANGED <<vm_ops, vm_running, vm_healthy>>
  /\ UNCHANGED <<requires_vm, vm_calls, vm_config, vm_strategy, vm_faults>>
  /\ VMUnchangedOthers

\* the workflows of the VM specification: the chain A -> B -> C, the
\* fan-out A -> {B, C} and the triangle A -> {B, C}, B -> C
VMWorkflows ==
  { [n \in {"A", "B", "C"} |->
       CASE n = "A" -> {"B"} [] n = "B" -> {"C"} [] OTHER -> {}],
    [n \in {"A", "B", "C"} |-> IF n = "A" THEN {"B", "C"} ELSE {}],
    [n \in {"A", "B", "C"} |->
       CASE n = "A" -> {"B", "C"} [] n = "B" -> {"C"} [] OTHER -> {}] }

\* the ways the InvokeNext of an action with these successors can be written:
\* a list, a mapping with "True" and "False" branches when there is a
\* successor to put in one, a single name when there is exactly one successor
InvokeNextForms(successors) ==
  {"list"} \cup (IF successors # {} THEN {"dict"} ELSE {})
           \cup (IF Cardinality(successors) = 1 THEN {"str"} ELSE {})

InitVM ==
  /\ function_names = <<"A", "B", "C">>
  /\ workflow_invoke = "A"
  /\ adj_graph \in VMWorkflows
  /\ invoke_next_form \in [{"A", "B", "C"} -> {"list", "str", "dict"}]
  /\ \A n \in {"A", "B", "C"} : invoke_next_form[n] \in InvokeNextForms(adj_graph[n])
  /\ stream_logs = FALSE
  /\ max_log_len = MaxLogLen
  /\ s3_faults = FALSE
  /\ BlobStoreInit
  /\ RunnerInit
  /\ requires_vm \in [Names -> BOOLEAN]
  /\ vm_calls \in {"orchestrate_vm", "pre_post"}
  /\ vm_running \in BOOLEAN
  /\ vm_ops = {}
  /\ vm_stage = [n \in Names |-> "waiting"]
  /\ vm_config = "valid"
  /\ vm_strategy \in Strategies
  /\ vm_faults = FALSE
  /\ vm_healthy = vm_running
  /\ vm_call = NoCall

NextVM ==
  \E a \in Names :
    \/ orchestrate_vm(a)
    \/ orchestrate_vm_pre_execution(a)
    \/ ActionBody(a)
    \/ orchestrate_vm_post_execution(a)

\* the actions of a workflow and their VM orchestration
SpecVM == InitVM /\ [][NextVM]_vars

(* ------------------------ the built-in functions ----------------------- *)

\* the answers of the runner registry to one request: 200 with the runner
\* online, 200 with the runner not online, 401, 404, another status, or a
\* request exception
RunnerResponse == {"online", "offline", "401", "404", "500", "error"}

\* what the requests of check_runner_online are answered, one per check interval
RunnerResponses == [1..RunnerTimeout -> RunnerResponse]

\* mutant of HardStop: 404 is treated like any other status
HardStopOnly401(response) == response = "401"

\* mutant of HardStop: any status other than 200 ends the polling
HardStopAnyStatus(response) == response \in {"401", "404", "500"}

\* github_runner.py lines 59-64: the statuses that end the polling
HardStop(response) == response \in {"401", "404"}

\* github_runner.py lines 36-77, the loop of check_runner_online after
\* `elapsed` check intervals: it runs while the elapsed time is below the
\* timeout, returns True when the runner is online, False on 401 and 404, and
\* sleeps one interval after any other answer
RECURSIVE RunnerLoop(_, _)
RunnerLoop(responses, elapsed) ==
  IF ~(elapsed < RunnerTimeout)
    THEN [online |-> FALSE, api |-> <<>>, slept |-> elapsed]
  ELSE LET response == responses[elapsed + 1]
           request == <<Api("check_runner_online", "runners", response)>>
       IN  IF response = "online"
             THEN [online |-> TRUE, api |-> request, slept |-> elapsed]
           ELSE IF HardStop(response)
             THEN [online |-> FALSE, api |-> request, slept |-> elapsed]
           ELSE LET rest == RunnerLoop(responses, elapsed + 1)
                IN  [online |-> rest.online, api |-> request \o rest.api,
                     slept |-> rest.slept]

\* github_runner.py, check_runner_online
check_runner_online(responses) == RunnerLoop(responses, 0)

\* vm_start.py lines 24-45, vm_poll.py lines 23-44: VMConfig and the
\* credentials of the environment are there (ValueError otherwise)
BuiltinConfigured(config) == config \notin {"absent", "no_access_key"}

\* aws.py line 173: the parameters of wait_for_vm_ready
WaitForVMReadyParameters == {"vm_config", "vm_details"}

\* vm_start.py lines 69 and 73, vm_poll.py line 59: wait_for_vm_ready is called
\* with the keyword skip_runner_wait; a keyword that is not a parameter makes
\* the call raise TypeError before the function runs
WaitAcceptsSkipRunnerWait == "skip_runner_wait" \in WaitForVMReadyParameters

\* what such a call of wait_for_vm_ready can see
KeywordObservations(healthy) ==
  IF WaitAcceptsSkipRunnerWait THEN WaitObservations(healthy) ELSE {<<>>}

\* vm_start.py lines 66-69 and 72-73: start_vm, then wait_for_vm_ready with
\* the keyword skip_runner_wait
StartAndWaitKeyword(config, described, started, observations) ==
  LET s == start_vm(config, described, started)
  IN  IF s.raised \/ WaitAcceptsSkipRunnerWait
        THEN StartAndWait(config, described, started, observations)
        ELSE [raised |-> TRUE, api |-> s.api, did |-> s.did,
              running |-> TRUE, healthy |-> vm_healthy]

BuiltinUnchangedOthers ==
  /\ UNCHANGED <<requires_vm, vm_calls, vm_ops, vm_stage, vm_config, vm_strategy, vm_faults>>
  /\ VMUnchangedOthers

\* a built-in function ends by raising
BuiltinRaises(op, api, running, healthy) ==
  /\ vm_call' = Call(op, "", api, "raised")
  /\ vm_running' = running
  /\ vm_healthy' = healthy

\* vm_start.py lines 77-117: the runner is verified when GH_PAT is set, and
\* True is returned whether or not it was found online
VerifyRunnerAndReturn(api, running, healthy) ==
  /\ \E gh_pat \in BOOLEAN :
       IF gh_pat
         THEN \E responses \in RunnerResponses :
                LET c == check_runner_online(responses)
                IN  vm_call' = [Call("vm_start", "", api \o c.api, "returned")
                                  EXCEPT !.runner = IF c.online THEN "online"
                                                    ELSE "not_online",
                                         !.slept = c.slept]
         ELSE vm_call' = Call("vm_start", "", api, "returned")
  /\ vm_running' = running
  /\ vm_healthy' = healthy

\* builtin_functions/vm_start.py, vm_start
vm_start ==
  /\ IF ~BuiltinConfigured(vm_config) \/ ~validate_vm_config(vm_config)
       THEN BuiltinRaises("vm_start", <<>>, vm_running, vm_healthy)
       ELSE
         \E d1 \in DescribeOutcomes(vm_running, vm_healthy) :
           LET checked == <<Api("vm_start", "describe", d1)>>
           IN
           IF d1 = "healthy"
             THEN VerifyRunnerAndReturn(checked, vm_running, vm_healthy)
             ELSE
               \E d2 \in DescribeOutcomes(vm_running, vm_healthy),
                  s1 \in CommandOutcomes,
                  o1 \in KeywordObservations(vm_healthy) :
                 LET first ==
                       IF d1 = "error"
                         THEN [raised |-> TRUE, api |-> <<>>, did |-> "none",
                               running |-> vm_running, healthy |-> vm_healthy]
                         ELSE StartAndWaitKeyword(vm_config, d2, s1, o1)
                 IN
                 IF ~first.raised
                   THEN VerifyRunnerAndReturn(checked \o first.api,
                                              first.running, first.healthy)
                   ELSE
                     \* lines 70-73: any exception of the first attempt leads
                     \* to a second start_vm and wait_for_vm_ready
                     \E d3 \in DescribeOutcomes(first.running, first.healthy),
                        s2 \in CommandOutcomes,
                        o2 \in KeywordObservations(first.healthy) :
                       LET second == StartAndWaitKeyword(vm_config, d3, s2, o2)
                           api == checked \o first.api \o second.api
                           running == first.running \/ second.running
                           healthy == first.healthy \/ second.healthy
                       IN  IF second.raised
                             THEN BuiltinRaises("vm_start", api, running, healthy)
                             ELSE VerifyRunnerAndReturn(api, running, healthy)
  /\ BuiltinUnchangedOthers

\* builtin_functions/vm_poll.py, vm_poll: the wait (line 59), and after it the
\* runner verification, which raises RuntimeError when the runner is not found
\* online (lines 81-93)
vm_poll ==
  /\ IF \/ ~BuiltinConfigured(vm_config)
        \/ ~validate_vm_config(vm_config)
        \/ ~WaitAcceptsSkipRunnerWait
       THEN BuiltinRaises("vm_poll", <<>>, vm_running, vm_healthy)
       ELSE
         \E observations \in WaitObservations(vm_healthy), gh_pat \in BOOLEAN :
           LET w == wait_for_vm_ready(observations)
           IN  /\ vm_running' = vm_running
               /\ vm_healthy' = (vm_healthy \/ w.ready)
               /\ IF gh_pat
                    THEN \E responses \in RunnerResponses :
                           LET c == check_runner_online(responses)
                           IN  vm_call' =
                                 [Call("vm_poll", "", w.api \o c.api,
                                       IF c.online THEN "returned" ELSE "raised")
                                    EXCEPT !.runner = IF c.online THEN "online"
                                                      ELSE "not_online",
                                           !.slept = c.slept]
                    ELSE vm_call' = Call("vm_poll", "", w.api, "returned")
  /\ BuiltinUnchangedOthers

\* the modules of the package FaaSr_py.vm
VMModules ==
  {"detection", "github_runner", "orchestration", "position",
   "providers", "providers.aws"}

\* mutant of StopHandled: the exception is raised again
StopRaisedAgain(raised) == IF raised THEN "raised" ELSE "returned"

\* vm_stop.py lines 56-60: an exception in the body is logged and True returned
StopHandled(raised) == "returned"

\* builtin_functions/vm_stop.py, vm_stop: True without VMConfig (lines 23-25);
\* the body imports check_vm_status from FaaSr_py.vm.aws (line 40), a module
\* the package does not have, so the import raises and nothing is requested;
\* after the import the state is checked (lines 43-49) and the VM stopped
\* (line 52), and whatever is raised is handled (lines 56-60)
vm_stop ==
  /\ IF vm_config = "absent"
       THEN /\ vm_call' = Call("vm_stop", "", <<>>, "returned")
            /\ UNCHANGED <<vm_running, vm_healthy>>
       ELSE IF "aws" \notin VMModules
         THEN /\ vm_call' = Call("vm_stop", "", <<>>, StopHandled(TRUE))
              /\ UNCHANGED <<vm_running, vm_healthy>>
       ELSE
         \E described \in DescribeOutcomes(vm_running, vm_healthy),
            stopped \in CommandOutcomes :
           LET seen == IF RequiredParameters(vm_config) THEN described ELSE "error"
               checked == IF RequiredParameters(vm_config)
                            THEN <<Api("vm_stop", "describe", described)>>
                            ELSE <<>>
               t == stop_vm(vm_config, stopped)
           IN  IF seen = "stopped"
                 THEN /\ vm_call' = Call("vm_stop", "", checked, "returned")
                      /\ UNCHANGED <<vm_running, vm_healthy>>
                 ELSE /\ vm_call' = Call("vm_stop", "", checked \o t.api,
                                         StopHandled(t.raised))
                      /\ vm_running' = IF t.did = "stop" THEN FALSE ELSE vm_running
                      /\ vm_healthy' = IF t.did = "stop" THEN FALSE ELSE vm_healthy
  /\ BuiltinUnchangedOthers

\* a caller of the provider's start_vm (exported by providers/__init__.py) with
\* the VMConfig as it is written
ProviderStartVM ==
  /\ vm_config # "absent"
  /\ \E described \in DescribeOutcomes(vm_running, vm_healthy),
        started \in CommandOutcomes :
       LET r == start_vm(vm_config, described, started)
       IN  /\ vm_call' = Call("start_vm", "", r.api,
                              IF r.raised THEN "raised" ELSE "returned")
           /\ vm_running' = (vm_running \/ r.did = "start")
           /\ vm_healthy' = vm_healthy
  /\ BuiltinUnchangedOthers

\* the workflow A -> B with any VMConfig, any instance and a provider that may fail
InitLifecycle ==
  /\ WorkflowAB
  /\ stream_logs = FALSE
  /\ max_log_len = MaxLogLen
  /\ s3_faults = FALSE
  /\ BlobStoreInit
  /\ RunnerInit
  /\ requires_vm \in [Names -> BOOLEAN]
  /\ vm_calls \in {"orchestrate_vm", "pre_post"}
  /\ vm_running \in BOOLEAN
  /\ vm_healthy \in BOOLEAN
  /\ vm_healthy => vm_running
  /\ vm_ops = {}
  /\ vm_stage = [n \in Names |-> "waiting"]
  /\ vm_config \in ConfigKinds
  /\ vm_strategy = "simple_start_end"
  /\ vm_faults = TRUE
  /\ vm_call = NoCall

NextLifecycle ==
  \/ NextVM
  \/ vm_start
  \/ vm_poll
  \/ vm_stop
  \/ ProviderStartVM

\* the orchestration entry points, the built-in functions and the provider
SpecLifecycle == InitLifecycle /\ [][NextLifecycle]_vars

(* --------------------- wait_for_vm_ready, step by step ----------------- *)

\* mutant of WaitAfterPoll: an exception of the status check ends the wait
WaitAbortsOnError(seen) ==
  IF seen = "healthy" THEN "returned"
  ELSE IF seen = "error" THEN "raised"
  ELSE "sleep"

\* aws.py lines 196-219, one pass of the loop after its timeout test: break
\* when the instance is running with its checks passed; otherwise, and when
\* check_vm_status raised (except Exception, line 215), sleep one interval
WaitAfterPoll(seen) ==
  IF seen = "healthy" THEN "returned" ELSE "sleep"

\* a caller enters wait_for_vm_ready (aws.py lines 181-185)
wait_call ==
  /\ vm_call.op = "none"
  /\ vm_call' = Call("wait_for_vm_ready", "", <<>>, "polling")
  /\ UNCHANGED <<vm_running, vm_healthy>>
  /\ BuiltinUnchangedOthers

\* aws.py lines 187-219, one pass of the loop of wait_for_vm_ready: the
\* timeout test (lines 190-193), then check_vm_status, which raises ValueError
\* before any request when a parameter is missing (lines 127-128)
wait_iteration ==
  /\ vm_call.op = "wait_for_vm_ready"
  /\ vm_call.outcome = "polling"
  /\ IF vm_call.slept > MaxWaitTime
       THEN /\ vm_call' = [vm_call EXCEPT !.outcome = "returned"]
            /\ UNCHANGED <<vm_running, vm_healthy>>
       ELSE \E observations \in WaitObservations(vm_healthy) :
              LET seen == IF RequiredParameters(vm_config)
                            THEN observations[vm_call.slept + 1]
                            ELSE "error"
                  request == IF RequiredParameters(vm_config)
                               THEN <<Api("wait_for_vm_ready", "describe", seen)>>
                               ELSE <<>>
                  then == WaitAfterPoll(seen)
              IN  /\ vm_call' =
                       [vm_call EXCEPT
                          !.api = @ \o request,
                          !.outcome = IF then = "sleep" THEN "polling" ELSE then,
                          !.slept = IF then = "sleep" THEN @ + 1 ELSE @]
                  /\ vm_running' = (vm_running \/ seen = "healthy")
                  /\ vm_healthy' = (vm_healthy \/ seen = "healthy")
  /\ BuiltinUnchangedOthers

\* a call of wait_for_vm_ready with the VMConfig as it is written, for any
\* instance and a provider that may fail
InitWait ==
  /\ WorkflowAB
  /\ stream_logs = FALSE
  /\ max_log_len = MaxLogLen
  /\ s3_faults = FALSE
  /\ BlobStoreInit
  /\ RunnerInit
  /\ requires_vm \in [Names -> BOOLEAN]
  /\ vm_calls = "none"
  /\ vm_running \in BOOLEAN
  /\ vm_healthy \in BOOLEAN
  /\ vm_healthy => vm_running
  /\ vm_ops = {}
  /\ vm_stage = [n \in Names |-> "waiting"]
  /\ vm_config \in ConfigKinds \ {"absent"}
  /\ vm_strategy = "simple_start_end"
  /\ vm_faults \in BOOLEAN
  /\ vm_call = NoCall

NextWait ==
  \/ wait_call
  \/ wait_iteration

\* wait_for_vm_ready run pass by pass; the thread that runs the loop is
\* scheduled and time.sleep returns
SpecWait == InitWait /\ [][NextWait]_vars /\ WF_vars(wait_iteration)

(* ------------------------------ properties ---------------------------- *)

\* the transition table of the status state machine
TransitionTable ==
  { <<PENDING, INVOKED>>, <<INVOKED, RUNNING>>, <<RUNNING, FAILED>>,
    <<RUNNING, COMPLETED>>, <<PENDING, SKIPPED>>, <<PENDING, TIMEOUT>>,
    <<RUNNING, TIMEOUT>>, <<RUNNING, SKIPPED>> }

EveryStatusCompleted == \A n \in Names : function_statuses[n] = COMPLETED
SomeFailed == \E n \in Names : function_statuses[n] = FAILED

\* the monitor stands at one of its checks (invocation, running, failed, completion)
AtCheck ==
  mon_pc \in {"was_invoked", "was_invoked_locked", "check_running",
              "check_failed", "check_completion"}

\* C1: every change of an action's status is an edge of the transition table.
C1_TransitionsInTable ==
  [][\A n \in Names :
       function_statuses'[n] # function_statuses[n]
         => <<function_statuses[n], function_statuses'[n]>> \in TransitionTable]_vars

\* C1 witness: a run went Invoked -> Running -> Completed for one action and
\* Pending -> Skipped for another.
C1_Witness ==
  /\ function_statuses["A"] = COMPLETED
  /\ function_statuses["B"] = SKIPPED

\* C2 as claimed: once an action is Failed no check (invocation, running, failed,
\* completion) is made any more, and an action then Pending can only become Skipped.
C2_NoCheckAfterFailed ==
  [][SomeFailed =>
       /\ ~AtCheck'
       /\ \A n \in Names :
            function_statuses[n] = PENDING
              => function_statuses'[n] \in {PENDING, SKIPPED}]_vars

\* C2 amended: once an action is Failed the monitor finishes the pass in progress
\* and starts no other pass (no sleep, no loop test, no new snapshot), and once it
\* has left the loop no action is Pending.
C2_CascadeAtEndOfPass ==
  SomeFailed =>
    /\ mon_pc \notin {"sleep", "while", "snapshot", "snapshot_locked"}
    /\ mon_pc \in {"sweep", "sweep_locked", "complete", "complete_locked", "done"}
         => \A n \in Names : function_statuses[n] # PENDING

\* C2 witness: the monitor has ended after a failure that skipped a Pending action.
C2_Witness ==
  /\ mon_pc = "done"
  /\ function_statuses["A"] = FAILED
  /\ function_statuses["B"] = SKIPPED

C4_NoneLeftActive ==
  mon_pc = "done"
    => \A n \in Names : function_statuses[n] \notin {PENDING, INVOKED, RUNNING}

\* C5 as claimed: an action is TimedOut only when the inactivity budget was
\* exceeded and no action Failed.
C5_TimedOutOnlyOnTimeout ==
  \A n \in Names :
    function_statuses[n] = TIMEOUT
      => /\ seconds_since_last_status_change >= Timeout
         /\ ~SomeFailed

\* C6 as claimed: with log streaming on, a Running action whose log object holds
\* an error line is never marked Completed.
C6_ErrorNeverCompleted ==
  [][\A n \in Names :
       (/\ stream_logs
        /\ function_statuses[n] = RUNNING
        /\ function_statuses'[n] = COMPLETED)
         => ~(s3_log[n] # NoObject /\ FailedRegexSearch(s3_log[n]))]_vars

\* C7: a status goes from Pending to Invoked only while a predecessor is Completed
\* and that predecessor's buffer holds an invocation marker naming the action.
C7_InvokedOnlyByCompletedInvoker ==
  [][\A n \in Names :
       (function_statuses[n] = PENDING /\ function_statuses'[n] = INVOKED)
         => \E p \in reverse_adj_graph(n) :
              /\ function_statuses[p] = COMPLETED
              /\ \E i \in 1..Len(function_logs[p]) :
                   function_logs[p][i] \in {InvokedLine(n),
                                            [kind |-> "invoked", name |-> <<n>>]}]_vars

\* C7 witness: the successor has been invoked.
C7_Witness == function_statuses["B"] = INVOKED

\* C8 as claimed: the decision to invoke an action rests on the snapshot: a
\* predecessor is Completed in the snapshot of the pass.
C8_DecisionFromSnapshot ==
  (mon_pc = "set_status" /\ new_status = INVOKED)
    => \E p \in reverse_adj_graph(Cur) : functions_to_check[p] = COMPLETED

\* C9 as claimed: shutdown() returns True only if, when it returns, the monitor
\* thread and every log-tailing thread have exited.
C9_TrueOnlyIfAllExited ==
  [][(sh_pc # "returned" /\ sh_pc' = "returned" /\ sh_result' = "True")
       => /\ ~MonitorAlive'
          /\ \A n \in Names : ~IsAlive(logs_threads'[n])]_vars

\* C10 as claimed: a thread about to read or write a log buffer holds its lock.
C10_BufferUnderLock ==
  /\ mon_pc = "check_failed" => logs_locks[Cur] = "monitor"
  /\ mon_pc = "was_invoked_locked" => logs_locks[invoker] = "monitor"
  /\ \A n \in Names : logs_threads[n] = "locked" => logs_locks[n] = "worker"

\* C11: the status map holds one status of FunctionStatus for each action, no
\* more and no less, and a step that changes the map is taken by the thread that
\* holds the status lock, which the step then releases.
C11_StatusMapUnderLock ==
  /\ DOMAIN function_statuses = Names
  /\ \A n \in Names : function_statuses[n] \in FunctionStatus
  /\ [][/\ DOMAIN function_statuses' = Names
        /\ \A n \in Names : function_statuses'[n] \in FunctionStatus
        /\ function_statuses' # function_statuses
             => status_lock = "monitor" /\ status_lock' = "free"]_vars

\* C11 witness: the monitor holds the status lock and is about to write the
\* sweep's statuses, after a transition has been written.
C11_Witness ==
  /\ mon_pc = "sweep_locked"
  /\ status_lock = "monitor"
  /\ function_statuses["A"] = COMPLETED
  /\ function_statuses["B"] = PENDING

\* the monitor has a head_object request in flight
MonitorRequestInFlight == mon_pc \in {"check_running", "check_completion"}

\* the log-tailing worker of n has its get_object request in flight
WorkerRequestInFlight(n) == logs_threads[n] = "fetching"

\* C12: a thread with a blob-store request in flight holds no lock: the monitor
\* holds neither the status lock nor a log lock during head_object, and a worker
\* does not hold its log lock during get_object.
C12_RequestsOutsideLocks ==
  /\ MonitorRequestInFlight
       => /\ status_lock # "monitor"
          /\ \A n \in Names : logs_locks[n] # "monitor"
  /\ \A n \in Names : WorkerRequestInFlight(n) => logs_locks[n] # "worker"

\* C12 witness: the monitor and a worker both have a request in flight.
C12_Witness ==
  /\ mon_pc = "check_completion"
  /\ WorkerRequestInFlight("A")

\* the log-tailing threads of n that are alive: the one _logs_threads[n] refers
\* to, and one replaced while it was alive
AliveLogsThreads(n) ==
  (IF IsAlive(logs_threads[n]) THEN 1 ELSE 0) + (IF unjoined_threads[n] THEN 1 ELSE 0)

\* C13: at most one log-tailing thread is alive per action: a thread is started
\* for an action only when the previous thread of that action has finished.
C13_OneTailingThreadPerAction ==
  \A n \in Names : AliveLogsThreads(n) <= 1

\* C13 witness: a tailing round of A has finished (the buffer is filled) and the
\* monitor has started the next round.
C13_Witness ==
  /\ function_logs["A"] # <<>>
  /\ logs_threads["A"] = "fetching"
  /\ AliveLogsThreads("A") = 1

\* old is a prefix of new
IsPrefix(old, new) ==
  /\ Len(old) <= Len(new)
  /\ \A i \in 1..Len(old) : old[i] = new[i]

\* C14 as claimed: a log buffer only grows at its end: at every step the
\* previous contents are a prefix of the new contents.
C14_BufferAppendOnly ==
  [][\A n \in Names : IsPrefix(function_logs[n], function_logs'[n])]_vars

\* C15: the monitor has one inactivity counter for all actions. The step that
\* writes a transition of any action leaves the counter at zero, and the loop is
\* left with the counter at or above the timeout only when the time since the last
\* recorded status change is at or above the timeout.
C15_GlobalInactivityTimeout ==
  [][/\ (mon_pc = "set_status_locked" /\ function_statuses' # function_statuses)
          => seconds_since_last_status_change' = 0
     /\ (/\ mon_pc = "while"
         /\ mon_pc' = "sweep"
         /\ seconds_since_last_status_change >= Timeout)
          => time_since_change >= Timeout]_vars

\* C15 witness: the loop has been left on the timeout condition after transitions
\* of both actions: A is Completed, B was Invoked and never ran.
C15_Witness ==
  /\ mon_pc = "sweep"
  /\ seconds_since_last_status_change >= Timeout
  /\ ~shutdown_requested
  /\ function_statuses["A"] = COMPLETED
  /\ function_statuses["B"] = INVOKED

\* C16: a sweep made with the shutdown flag set turns every Pending or Running
\* action into Skipped and turns none into TimedOut; and a scan pass is entered
\* only from the loop test, and only if the flag is not set at that test.
C16_ShutdownSweepSkips ==
  [][/\ (mon_pc = "sweep_locked" /\ mon_pc' # "sweep_locked" /\ shutdown_requested)
          => \A n \in Names :
               /\ function_statuses[n] \in {PENDING, RUNNING}
                    => function_statuses'[n] = SKIPPED
               /\ function_statuses'[n] # TIMEOUT
     /\ (mon_pc # "snapshot" /\ mon_pc' = "snapshot")
          => (mon_pc = "while" /\ ~shutdown_requested)
     /\ (mon_pc = "while" /\ mon_pc' # "while" /\ shutdown_requested)
          => mon_pc' = "sweep"]_vars

\* C16 witness: after a shutdown request the sweep has run with no failure
\* before it, and it has set B to Skipped.
C16_Witness ==
  /\ mon_pc = "complete"
  /\ shutdown_requested
  /\ ~failed
  /\ function_statuses["B"] = SKIPPED

\* the final statuses the scenario names
ScenarioFinalStatuses ==
  /\ function_statuses["A"] = COMPLETED
  /\ function_statuses["B"] = COMPLETED
  /\ function_statuses["C"] = TIMEOUT
  /\ function_statuses["D"] = TIMEOUT

\* B ran without writing an error line
ScenarioBSucceeded ==
  /\ s3_done["B"]
  /\ ~FailedRegexSearch(s3_log["B"])

\* C17 as claimed: in the scenario C never leaves Pending before the end of the
\* loop, and when B has run without error the monitor ends with A = Completed,
\* B = Completed, C = TimedOut, D = TimedOut.
C17_ScenarioOutcome ==
  /\ function_statuses["C"] \in {PENDING, TIMEOUT, SKIPPED}
  /\ (mon_pc = "done" /\ ScenarioBSucceeded) => ScenarioFinalStatuses

\* the scenario's outcome when the runner was built with stream_logs on
ScenarioOutcomeWhenTailing == stream_logs => C17_ScenarioOutcome

\* a run with stream_logs on has ended with the scenario's final statuses
ScenarioOutcomeReached == stream_logs /\ mon_pc = "done" /\ ScenarioFinalStatuses

\* C18: until the monitor thread is started, and so in the state it starts
\* from, the start action (FunctionInvoke) is Invoked and every other action is
\* Pending.
C18_InitialStatuses ==
  mon_pc = "idle"
    => /\ function_statuses[workflow_invoke] = INVOKED
       /\ \A n \in Names \ {workflow_invoke} : function_statuses[n] = PENDING

\* C18 witness: the runner is constructed and the start action has begun to
\* run remotely; the monitor thread is about to be started.
C18_Witness ==
  /\ mon_pc = "idle"
  /\ s3_log["A"] # NoObject
  /\ function_statuses = [n \in Names |-> IF n = "A" THEN INVOKED ELSE PENDING]

\* the actions that come after a in the DAG (paths of up to three edges)
ComesAfter(a) ==
  LET d1 == adj_graph[a]
      d2 == UNION {adj_graph[x] : x \in d1}
      d3 == UNION {adj_graph[x] : x \in d2}
  IN  d1 \cup d2 \cup d3

\* the body of a has run
HasRun(a) == vm_stage[a] \in {"executed", "finished"}

\* C19 as claimed: with post-execution orchestration after every body, once
\* an action has issued a stop, every VM-requiring action that comes after it in
\* the DAG has run.
C19_StopOnlyAfterLastVMAction ==
  vm_calls = "pre_post"
    => \A a \in Names :
         <<"stop", a>> \in vm_ops
           => \A b \in ComesAfter(a) : requires_vm[b] => HasRun(b)

\* C20 as claimed: when orchestrate_vm has returned for the first VM-requiring
\* action and its body has not run yet, that call has started the VM (or found
\* it running) and has not issued a stop.
C20_NoStopBeforeBody ==
  vm_calls = "orchestrate_vm"
    => \A a \in Names :
         (vm_stage[a] = "ready" /\ is_first_vm_action(a))
           => /\ (<<"start", a>> \in vm_ops \/ <<"start_skipped", a>> \in vm_ops)
              /\ <<"stop", a>> \notin vm_ops

(* ------------------- position in the DAG (C21..C24) ------------------- *)

\* has no predecessors in the graph
StructurallyFirst(a) == \A p \in Names : a \notin adj_graph[p]

\* has no successors in the graph
StructurallyLast(a) == adj_graph[a] = {}

\* C21 as claimed: for every action, is_first_vm_action is true exactly when no
\* other VM-requiring action is structurally first, and is_last_vm_action is
\* true exactly when no other VM-requiring action is structurally last.
C21_FirstLastIffNoOther ==
  \A a \in Names :
    /\ is_first_vm_action(a)
         <=> ~\E o \in Names \ {a} : requires_vm[o] /\ StructurallyFirst(o)
    /\ is_last_vm_action(a)
         <=> ~\E o \in Names \ {a} : requires_vm[o] /\ StructurallyLast(o)

\* the failing input of C21: A and B require the VM, A names B as a single
\* name; B has the predecessor A and is still found to be the first VM action
C21_SingleNameCase ==
  ~(/\ requires_vm["A"] /\ requires_vm["B"]
    /\ "B" \in adj_graph["A"] /\ invoke_next_form["A"] = "str"
    /\ is_first_vm_action("B")
    /\ vm_calls = "orchestrate_vm" /\ <<"start", "B">> \in vm_ops)

\* C22: when exactly one action requires the VM, is_first_vm_action and
\* is_last_vm_action are both true of it, whatever the graph around it.
C22_SingleVMActionFirstAndLast ==
  Cardinality({n \in Names : requires_vm[n]}) = 1
    => \A a \in Names :
         requires_vm[a] => is_first_vm_action(a) /\ is_last_vm_action(a)

\* the only VM-requiring action is B in the middle of the chain, and its
\* orchestrate_vm call has started and stopped the VM
C22_Witness ==
  /\ {n \in Names : requires_vm[n]} = {"B"}
  /\ adj_graph["A"] = {"B"} /\ adj_graph["B"] = {"C"}
  /\ vm_stage["B"] = "ready"
  /\ <<"start", "B">> \in vm_ops
  /\ <<"stop", "B">> \in vm_ops

\* C23 as claimed: does_next_action_require_vm is true exactly when an
\* immediate successor requires the VM, the successors being those of a list,
\* of a single name and of both branches of a conditional mapping.
C23_NextRequiresVMIffSuccessor ==
  \A a \in Names :
    does_next_action_require_vm(a) <=> \E n \in adj_graph[a] : requires_vm[n]

\* C24: the reverse adjacency that is built is the transpose of the forward
\* adjacency: a is in reverse[b] exactly when b is in forward[a], and the keys
\* of the reverse graph are actions.
C24_ReverseIsTranspose ==
  /\ DOMAIN build_reverse_adjacency_graph \subseteq Names
  /\ \A a \in Names : \A b \in Names :
       a \in reverse_adj_graph(b) <=> b \in adj_graph[a]

\* the triangle A -> {B, C}, B -> C: C has two invokers, and has been invoked
C24_Witness ==
  /\ adj_graph["A"] = {"B", "C"} /\ adj_graph["B"] = {"C"}
  /\ reverse_adj_graph("C") = {"A", "B"}
  /\ vm_stage["C"] # "waiting"

(* --------------------- the VM lifecycle (C25..C30) -------------------- *)

\* the requests of the last call that asked for `command`
Requests(command) ==
  {i \in 1..Len(vm_call.api) : vm_call.api[i][2] = command}

\* the last call began by seeing the instance in one of these states
FirstSaw(who, states) ==
  /\ vm_call.api # <<>>
  /\ vm_call.api[1][1] = who
  /\ vm_call.api[1][2] = "describe"
  /\ vm_call.api[1][3] \in states

C26_ConfigErrorBeforeAnyCall ==
  (/\ vm_call.op \in {"start_vm", "vm_start"}
   /\ vm_config \in {"no_region", "empty_region", "no_instance_id", "no_access_key"})
    => vm_call.outcome = "raised" /\ vm_call.api = <<>>

\* every request of the last call was answered without an error
AllRequestsAnswered ==
  \A i \in 1..Len(vm_call.api) :
    vm_call.api[i][3] \notin {"error", "empty", "401", "404", "500"}

\* C27 as claimed: vm_start, vm_poll and the pre-execution orchestration return
\* normally when the only thing that went wrong is that readiness was not
\* reached: the configuration is valid, every request was answered, and the
\* instance is not healthy or the runner was not found online.
C27_ReadinessTimeoutNotFatal ==
  (/\ vm_call.op \in {"vm_start", "vm_poll", "pre_execution"}
   /\ vm_config = "valid"
   /\ AllRequestsAnswered
   /\ (~vm_healthy \/ vm_call.runner = "not_online"))
    => vm_call.outcome = "returned"

\* the part of C27 that holds: the pre-execution orchestration returns when
\* wait_for_vm_ready has polled to its ceiling without seeing a healthy instance
PreExecutionWaitTimeoutReturns ==
  (/\ vm_call.op = "pre_execution"
   /\ Cardinality({i \in Requests("describe") :
                     vm_call.api[i][1] = "wait_for_vm_ready"}) = MaxWaitTime + 1
   /\ ~vm_healthy)
    => vm_call.outcome = "returned"

\* a pre-execution call whose wait has run to its ceiling
PreExecutionWaitTimeoutReached ==
  ~(/\ vm_call.op = "pre_execution"
    /\ Cardinality({i \in Requests("describe") :
                      vm_call.api[i][1] = "wait_for_vm_ready"}) = MaxWaitTime + 1
    /\ ~vm_healthy)

\* C28: a failure to stop the VM never fails the workflow: vm_stop and the
\* post-execution orchestration return normally whatever the provider
\* answers and however VMConfig is written, and no action fails in its
\* post-execution orchestration.
C28_StopFailureNeverFails ==
  /\ vm_call.op \in {"vm_stop", "post_execution"} => vm_call.outcome = "returned"
  /\ \A a \in Names :
       (vm_call.op = "post_execution" /\ vm_call.by = a) => vm_stage[a] = "finished"

\* the stop request of a post-execution call ended in an exception
C28_Witness ==
  /\ vm_call.op = "post_execution"
  /\ vm_call.api = <<Api("stop_vm", "stop", "error")>>
  /\ vm_call.outcome = "returned"
  /\ vm_stage[vm_call.by] = "finished"

\* C29 as claimed: stop looks at the state of the instance first: a call that
\* finds the instance not running makes no stop request, and vm_stop called
\* with a valid configuration on a running instance makes one.
C29_StopChecksStateFirst ==
  /\ (vm_call.op \in {"vm_stop", "post_execution"} /\ vm_call.was = "stopped")
       => Requests("stop") = {}
  /\ (/\ vm_call.op = "vm_stop"
      /\ vm_config = "valid"
      /\ vm_call.was # "stopped")
       => Requests("stop") # {}

\* the first half of C29 alone: no stop request for an instance that is not running
NoStopRequestWhenStopped ==
  (vm_call.op \in {"vm_stop", "post_execution"} /\ vm_call.was = "stopped")
    => Requests("stop") = {}

\* the requests the last call made to the runner registry
RunnerRequests ==
  {i \in 1..Len(vm_call.api) : vm_call.api[i][1] = "check_runner_online"}

\* C30: an answer 401 or 404 of the runner registry ends check_runner_online
\* at once: it is the last request of the call, the runner is reported not
\* online, and there was no sleep after it (one sleep between two requests).
C30_HardStopEndsPolling ==
  \A i \in RunnerRequests :
    vm_call.api[i][3] \in {"401", "404"}
      => /\ i = Len(vm_call.api)
         /\ vm_call.runner = "not_online"
         /\ vm_call.slept = Cardinality(RunnerRequests) - 1

\* the first request of the runner verification was answered 404
C30_Witness ==
  /\ vm_call.op = "vm_start"
  /\ vm_call.api = <<Api("vm_start", "describe", "healthy"),
                      Api("check_runner_online", "runners", "404")>>
  /\ vm_call.runner = "not_online"
  /\ vm_call.slept = 0
  /\ RunnerTimeout > 1

(* ------------- polling, strategies and tolerance (C31..C34) ------------ *)

\* the answers of the runner registry that are transient failures: a status
\* other than 200, 401 and 404, or a request exception
TransientFailure(response) == response \in {"500", "error"}

\* C31: a transient failure of the runner registry never ends
\* check_runner_online: after it, either another request is made one interval
\* later or the timeout has been reached; one interval is slept after every
\* request that does not end the call; and the runner is reported online only
\* if some request was answered with the runner online.
C31_TransientFailureKeepsPolling ==
  /\ \A i \in RunnerRequests :
       TransientFailure(vm_call.api[i][3])
         => \/ i + 1 \in RunnerRequests
            \/ /\ i = Len(vm_call.api)
               /\ vm_call.slept = RunnerTimeout
               /\ vm_call.runner = "not_online"
  /\ vm_call.slept \in {Cardinality(RunnerRequests),
                        Cardinality(RunnerRequests) - 1}
  /\ vm_call.runner = "online"
       => \E i \in RunnerRequests : vm_call.api[i][3] = "online"

\* a request failed with another status, the next one found the runner online
C31_Witness ==
  /\ vm_call.op = "vm_start"
  /\ vm_call.api = <<Api("vm_start", "describe", "healthy"),
                      Api("check_runner_online", "runners", "500"),
                      Api("check_runner_online", "runners", "online")>>
  /\ vm_call.runner = "online"
  /\ vm_call.slept = 1

\* C32: a strategy name other than simple_start_end (per_function, optimized
\* or any other value) gives no error: a call of orchestrate_vm for an action
\* that requires the VM returns, and what it requested of the provider and did
\* to the instance is what execute_strategy_simple_start_end does on the same
\* payload with the same answers of the provider.
C32_UnknownStrategyAsSimpleStartEnd ==
  [][\A a \in Names :
       (/\ vm_calls = "orchestrate_vm"
        /\ vm_stage[a] = "waiting" /\ vm_stage'[a] = "ready"
        /\ action_requires_vm(a)
        /\ get_vm_strategy # "simple_start_end")
         => \E described \in DescribeOutcomes(vm_running, vm_healthy),
               started \in CommandOutcomes,
               observations \in WaitObservations(vm_healthy),
               stopped \in CommandOutcomes :
              LET r == execute_strategy_simple_start_end(
                         a, described, started, observations, stopped)
              IN  /\ vm_call' = Call("orchestrate_vm", a, r.api, "returned")
                  /\ vm_ops' = vm_ops \cup DidOps(r.dids, a)
                  /\ vm_running' = r.running
                  /\ vm_healthy' = r.healthy]_vars

\* under a strategy that is not implemented, orchestrate_vm has started the
\* instance for an action
C32_Witness ==
  /\ get_vm_strategy \in {"per_function", "optimized", "other"}
  /\ vm_call.op = "orchestrate_vm"
  /\ vm_call.outcome = "returned"
  /\ Requests("start") # {}
  /\ <<"start", vm_call.by>> \in vm_ops

\* C33: orchestration called from an action that does not itself require the
\* VM is tolerated. orchestrate_vm and orchestrate_vm_post_execution then make
\* no request to the provider, do nothing to the instance and return;
\* orchestrate_vm_pre_execution makes a start request only if an immediate
\* successor of the action requires the VM.
C33_NonVMActionTolerated ==
  (vm_call.op \in {"orchestrate_vm", "post_execution", "pre_execution"}
     /\ ~requires_vm[vm_call.by])
    => /\ vm_call.op \in {"orchestrate_vm", "post_execution"}
            => /\ vm_call.api = <<>>
               /\ vm_call.outcome = "returned"
               /\ <<"stop", vm_call.by>> \notin vm_ops
               /\ vm_call.op = "orchestrate_vm"
                    => ~\E op \in vm_ops : op[2] = vm_call.by
       /\ vm_call.op = "pre_execution"
            => /\ Requests("stop") = {}
               /\ Requests("start") # {}
                    => \E next_action \in adj_graph[vm_call.by] :
                         requires_vm[next_action]

\* an action that does not require the VM started it for its successor before
\* its body, and its post-execution call left the instance running
C33_Witness ==
  /\ vm_call.op = "post_execution"
  /\ ~requires_vm[vm_call.by]
  /\ <<"start", vm_call.by>> \in vm_ops
  /\ vm_call.api = <<>>
  /\ vm_running

\* the call of wait_for_vm_ready is in its loop
WaitPolling == vm_call.op = "wait_for_vm_ready" /\ vm_call.outcome = "polling"

\* the call of wait_for_vm_ready has returned
WaitReturned == vm_call.op = "wait_for_vm_ready" /\ vm_call.outcome = "returned"

\* C34: wait_for_vm_ready always terminates. Every call returns; it never
\* ends with an exception, also when the status check raises on every poll;
\* it is not in its loop any more once a poll has seen the instance running
\* with its checks passed; and when it returns, either its last poll saw that
\* or the ceiling of the wait was exceeded.
C34_WaitTerminates ==
  /\ WaitPolling ~> WaitReturned
  /\ [](vm_call.op = "wait_for_vm_ready" => vm_call.outcome # "raised")
  /\ [](WaitPolling
          => \A i \in 1..Len(vm_call.api) : vm_call.api[i][3] # "healthy")
  /\ [](WaitReturned
          => \/ vm_call.slept > MaxWaitTime
             \/ /\ vm_call.api # <<>>
                /\ vm_call.api[Len(vm_call.api)][3] = "healthy")

\* the status check raised on every poll and the wait returned at its ceiling
C34_Witness ==
  /\ WaitReturned
  /\ RequiredParameters(vm_config)
  /\ vm_call.slept = MaxWaitTime + 1
  /\ Len(vm_call.api) = MaxWaitTime + 1
  /\ \A i \in 1..Len(vm_call.api) : vm_call.api[i][3] = "error"

\* the passes of wait_iteration make the requests the loop WaitLoop makes
WaitStepsAgreeWithLoop ==
  (WaitReturned /\ RequiredParameters(vm_config))
    => \E observations \in WaitObservations(vm_call.was = "healthy") :
         wait_for_vm_ready(observations).api = vm_call.api

(* ----------------- the runner as a whole (C35..C40) -------------------- *)

\* the statuses no transition leaves
TerminalStatus == {COMPLETED, FAILED, SKIPPED, TIMEOUT}

\* C35: the terminal statuses are absorbing. Once the status of an action is
\* COMPLETED, FAILED, SKIPPED or TIMEOUT, no step (scan pass, failure cascade,
\* final sweep, or any other thread) changes it.
C35_TerminalStatusAbsorbing ==
  [][\A n \in Names :
       function_statuses[n] \in TerminalStatus
         => function_statuses'[n] = function_statuses[n]]_vars

\* the monitor has ended after a failure, its cascade and its sweep, and the
\* failed action is still FAILED next to the skipped one
C35_Witness ==
  /\ monitoring_complete
  /\ mon_pc = "done"
  /\ function_statuses["A"] = FAILED
  /\ function_statuses["B"] = SKIPPED

\* C36: the monitor thread always terminates and sets the monitoring-complete
\* flag. With the threads scheduled, a finite timeout and blob-store calls
\* that return, in every behaviour of the blob store, of the workers and of
\* the callers the monitor leaves its loop, makes the final sweep and sets
\* _monitoring_complete.
C36_MonitorTerminates ==
  <>(mon_pc = "done" /\ monitoring_complete)

\* the monitor has ended by its inactivity timeout: the sweep left a TIMEOUT
C36_Witness ==
  /\ mon_pc = "done"
  /\ monitoring_complete
  /\ ~shutdown_requested
  /\ \E n \in Names : function_statuses[n] = TIMEOUT

\* C37 as claimed: once is_monitoring_complete() has answered true the status
\* map is final, also when the flag was set by force_shutdown(): no action is
\* PENDING or RUNNING in it, and no later step changes it.
C37_StatusesFinalOnceComplete ==
  /\ [](monitoring_complete
          => \A n \in Names : function_statuses[n] \notin {PENDING, RUNNING})
  /\ [][monitoring_complete => function_statuses' = function_statuses]_vars

\* the same once the monitor thread itself has set the flag
StatusesFinalOnceMonitorDone ==
  /\ [](mon_pc = "done"
          => /\ monitoring_complete
             /\ \A n \in Names : function_statuses[n] \notin {PENDING, RUNNING})
  /\ [][mon_pc = "done" => function_statuses' = function_statuses]_vars

\* force_shutdown() has set the flag while the monitor thread is still in its loop
ForcedWhileMonitoring ==
  /\ sh_pc = "forced"
  /\ monitoring_complete
  /\ mon_pc \notin {"done", "sweep", "sweep_locked", "complete", "complete_locked"}
  /\ \E n \in Names : function_statuses[n] \in {PENDING, RUNNING}

\* C38 as claimed: shutdown() returns a boolean and never raises, in any
\* state of the runner it is called in.
C38_ShutdownNeverRaises ==
  sh_pc \in {"returned", "forced"} => sh_result \in {"True", "False"}

\* shutdown() was called with the monitor thread exited and every started
\* log-tailing thread alive, and it raised
ShutdownRaisedAfterMonitorExit ==
  /\ sh_pc = "returned"
  /\ sh_result = "raise"
  /\ mon_pc = "done"
  /\ wait_timeout = "unbound"
  /\ StartedLogsThreads # {}

\* C39 as claimed: the statuses do not depend on stream_logs. In the scenario
\* a run with stream_logs on ends, when B ran without error, with A and B
\* Completed and C and D TimedOut (ScenarioOutcomeWhenTailing); a run with
\* stream_logs off over the same blob-store contents ends with the same
\* statuses.
C39_SameOutcomeWithoutTailing ==
  (~stream_logs /\ mon_pc = "done" /\ ScenarioBSucceeded)
    => ScenarioFinalStatuses

\* with stream_logs off no successor is ever seen invoked and no action is
\* ever seen failed
WithoutTailingNeverInvokedOrFailed ==
  ~stream_logs
    => /\ \A n \in Names \ {workflow_invoke} :
            function_statuses[n] \in {PENDING, TIMEOUT, SKIPPED}
       /\ \A n \in Names : function_statuses[n] # FAILED

\* with stream_logs on, B was seen invoked and then failed on its error line
WithTailingFailedReached ==
  /\ stream_logs
  /\ function_statuses["B"] = FAILED

\* the locks of the runner the monitor thread holds
MonitorLocksHeld ==
  (IF status_lock = "monitor" THEN 1 ELSE 0)
    + Cardinality({n \in Names : logs_locks[n] = "monitor"})

\* the monitor thread is at a with statement, about to take a lock
MonitorAcquiring ==
  mon_pc \in {"snapshot", "was_invoked", "set_status", "cascade", "sweep", "complete"}

====
